---- MODULE Spec2Model ----
(***************************************************************************)
(* A model of pyModbusTCP: the Modbus/TCP client (pyModbusTCP/client.py),  *)
(* the server's worker, engine and function handlers and the data bank     *)
(* (pyModbusTCP/server.py).  Frames and PDUs are sequences of bytes        *)
(* (0..255), packed and unpacked as struct.pack / struct.unpack do.        *)
(*                                                                         *)
(* Specifications:                                                         *)
(*   Spec        one client talking to one server over TCP                 *)
(*   SpecClient  the client against an arbitrary peer and a faulty network *)
(*   SpecBank    the DataBank API on banks of any (small) sizes            *)
(***************************************************************************)
EXTENDS Integers, Sequences, FiniteSets, TLC

\* ------------------------------------------------------------ constants.py
READ_COILS == 1
READ_DISCRETE_INPUTS == 2
READ_HOLDING_REGISTERS == 3
READ_INPUT_REGISTERS == 4
WRITE_SINGLE_COIL == 5
WRITE_SINGLE_REGISTER == 6
WRITE_MULTIPLE_COILS == 15
WRITE_MULTIPLE_REGISTERS == 16
WRITE_READ_MULTIPLE_REGISTERS == 23
ENCAPSULATED_INTERFACE_TRANSPORT == 43
SUPPORTED_FUNCTION_CODES ==
    {READ_COILS, READ_DISCRETE_INPUTS, READ_HOLDING_REGISTERS, READ_INPUT_REGISTERS,
     WRITE_SINGLE_COIL, WRITE_SINGLE_REGISTER, WRITE_MULTIPLE_COILS,
     WRITE_MULTIPLE_REGISTERS, WRITE_READ_MULTIPLE_REGISTERS,
     ENCAPSULATED_INTERFACE_TRANSPORT}
MEI_TYPE_READ_DEVICE_ID == 14
EXP_NONE == 0
EXP_ILLEGAL_FUNCTION == 1
EXP_DATA_ADDRESS == 2
EXP_DATA_VALUE == 3
EXP_GATEWAY_PATH_UNAVAILABLE == 10
EXP_GATEWAY_TARGET_DEVICE_FAILED_TO_RESPOND == 11
MB_NO_ERR == 0
MB_CONNECT_ERR == 2
MB_SEND_ERR == 3
MB_RECV_ERR == 4
MB_TIMEOUT_ERR == 5
MB_EXCEPT_ERR == 7
MB_SOCK_CLOSE_ERR == 9
MAX_PDU_SIZE == 253
\* the default size of each data bank space (0x10000), server.py DataBank.__init__
DEFAULT_SIZE == 65536

\* ------------------------------------------------------------ helpers
Min(a, b) == IF a < b THEN a ELSE b
Max(a, b) == IF a > b THEN a ELSE b

\* the function f of domain 1..n as a list
List(f) == f \o <<>>

\* Python's s[i:j] on a sequence, 0-based, for 0 <= i: clipped, never raising
Slice(s, i, j) ==
    LET hi == Min(j, Len(s))
    IN  IF hi <= i THEN <<>> ELSE List([k \in 1..(hi - i) |-> s[i + k]])

\* Python's s[i:] for 0 <= i
SliceFrom(s, i) == Slice(s, i, Len(s))

\* ------------------------------------------------------------ utils.py
byte_length(bit_length) == (bit_length + 7) \div 8

\* bit `offset` of `value` (value & (1 << offset)) as a bool
test_bit(value, offset) == ((value \div (2 ^ offset)) % 2) = 1

\* value | (1 << offset)
set_bit(value, offset) == IF test_bit(value, offset) THEN value ELSE value + 2 ^ offset

\* ------------------------------------------------------------ struct
\* struct.pack('>H', v): defined for 0 <= v <= 0xffff (struct.error otherwise)
PackH(v) == <<v \div 256, v % 256>>
HOk(v) == 0 <= v /\ v <= 65535
BOk(v) == 0 <= v /\ v <= 255

\* struct.unpack('>H', s[i:i+2])[0], i 0-based; needs Len(s) >= i + 2
UnpackH(s, i) == s[i + 1] * 256 + s[i + 2]

\* struct.pack('>%dH' % len(l), *l)
PackWords(l) == List([k \in 1..(2 * Len(l)) |->
                   IF k % 2 = 1 THEN l[(k + 1) \div 2] \div 256 ELSE l[k \div 2] % 256])

\* The coils part of a PDU: each bit i of the list sets bit i % 8 of byte i // 8.
\* The bits of one byte are folded with set_bit, in the order of the list.
RECURSIVE FoldByte(_, _, _, _)
FoldByte(bits, k, j, acc) ==
    IF j > 7 \/ 8 * k + j >= Len(bits) THEN acc
    ELSE FoldByte(bits, k, j + 1, IF bits[8 * k + j + 1] THEN set_bit(acc, j) ELSE acc)

PackBits(bits, b_size) == List([k \in 1..b_size |-> FoldByte(bits, k - 1, 0, 0)])

\* ------------------------------------------------------------ DataBank
\* A space is a Python list of `size` elements.  It is held as its size, the
\* value it was filled with at construction and the elements that differ from
\* that value (mem), so that a bank of 65536 elements stays small.
NewSpace(size, default_value) ==
    [size |-> size, dv |-> default_value, mem |-> [x \in {} |-> default_value]]

SpaceGet(sp, a) == IF a \in DOMAIN sp.mem THEN sp.mem[a] ELSE sp.dv

\* the list after the assignments upd (address -> value), every address < size
SpaceStore(sp, upd) ==
    LET dom == DOMAIN sp.mem \cup DOMAIN upd
        val(x) == IF x \in DOMAIN upd THEN upd[x] ELSE sp.mem[x]
    IN  [sp EXCEPT !.mem = [x \in {y \in dom : val(y) # sp.dv} |-> val(x)]]

\* list[address : address + number] of a space, for address >= 0
SpaceSlice(sp, address, number) ==
    LET hi == Min(address + number, sp.size)
    IN  IF hi <= address THEN <<>>
        ELSE List([k \in 1..(hi - address) |-> SpaceGet(sp, address + k - 1)])

\* DataBank.__init__
DataBankInit(coils_size, d_inputs_size, h_regs_size, i_regs_size) ==
    [coils    |-> NewSpace(coils_size, FALSE),
     d_inputs |-> NewSpace(d_inputs_size, FALSE),
     h_regs   |-> NewSpace(h_regs_size, 0),
     i_regs   |-> NewSpace(i_regs_size, 0)]

\* get_coils / get_holding_registers / get_input_registers: the bounds test is
\* made on the space that is read
get_space(sp, address, number) ==
    IF address >= 0 /\ address + number <= sp.size
    THEN [ok |-> TRUE, data |-> SpaceSlice(sp, address, number)]
    ELSE [ok |-> FALSE, data |-> <<>>]

get_coils(bank, address, number) == get_space(bank.coils, address, number)
get_holding_registers(bank, address, number) == get_space(bank.h_regs, address, number)
get_input_registers(bank, address, number) == get_space(bank.i_regs, address, number)

\* get_discrete_inputs: the bounds test is made on len(self._coils)
get_discrete_inputs(bank, address, number) ==
    IF address >= 0 /\ address + number <= bank.coils.size
    THEN [ok |-> TRUE, data |-> SpaceSlice(bank.d_inputs, address, number)]
    ELSE [ok |-> FALSE, data |-> <<>>]

\* a changes_list with every address written
ChangesListAll(sp, address, value_list) ==
    List([k \in 1..Len(value_list) |->
            [address |-> address + k - 1,
             from_value |-> SpaceGet(sp, address + k - 1),
             to_value |-> value_list[k]]])

\* a changes_list with every address written with another value than the
\* one the space was built with
ChangesListFromDefault(sp, address, value_list) ==
    LET all == List([k \in 1..Len(value_list) |->
                  [address |-> address + k - 1,
                   from_value |-> sp.dv,
                   to_value |-> value_list[k]]])
        Differs(c) == c.from_value # c.to_value
    IN  SelectSeq(all, Differs)

\* The (c_address, old, new) triples of the positions a write changes, in the
\* order of the list (the addresses of one write are distinct).
ChangesList(sp, address, value_list) ==
    LET all == List([k \in 1..Len(value_list) |->
                  [address |-> address + k - 1,
                   from_value |-> SpaceGet(sp, address + k - 1),
                   to_value |-> value_list[k]]])
        Differs(c) == c.from_value # c.to_value
    IN  SelectSeq(all, Differs)

\* a write loop that stops one element short
WriteAllButLast(sp, address, value_list) ==
    SpaceStore(sp, [a \in address..(address + Len(value_list) - 2) |->
                      value_list[a - address + 1]])

WriteAll(sp, address, value_list) ==
    SpaceStore(sp, [a \in address..(address + Len(value_list) - 1) |->
                      value_list[a - address + 1]])

\* set_coils / set_holding_registers: ret is "True" or "None"; changes is the
\* changes_list; the notifications are those of a call made with srv_info
set_changes(sp, address, value_list) ==
    IF address >= 0 /\ address + Len(value_list) <= sp.size
    THEN [ret |-> "True", space |-> WriteAll(sp, address, value_list),
          changes |-> ChangesList(sp, address, value_list)]
    ELSE [ret |-> "None", space |-> sp, changes |-> <<>>]

\* word_list = [int(w) & 0xffff for w in word_list]
MaskWords(word_list) == List([k \in 1..Len(word_list) |-> word_list[k] % 65536])

set_coils(bank, address, bit_list) == set_changes(bank.coils, address, bit_list)

set_holding_registers(bank, address, word_list) ==
    set_changes(bank.h_regs, address, MaskWords(word_list))

\* set_input_registers: as set_holding_registers, without a changes_list
set_input_registers(bank, address, word_list) ==
    LET r == set_changes(bank.i_regs, address, MaskWords(word_list))
    IN  [ret |-> r.ret, space |-> r.space]

\* set_discrete_inputs: the bounds test is made on len(self._coils); the loop
\* assigns self._d_inputs[address + offset] in turn, and the first assignment
\* past the end of the list raises IndexError, the earlier ones being kept
set_discrete_inputs(bank, address, bit_list) ==
    IF address >= 0 /\ address + Len(bit_list) <= bank.coils.size
    THEN LET fit == Max(0, Min(Len(bit_list), bank.d_inputs.size - address))
         IN  [ret |-> IF fit < Len(bit_list) THEN "IndexError" ELSE "True",
              space |-> WriteAll(bank.d_inputs, address, SubSeq(bit_list, 1, fit))]
    ELSE [ret |-> "None", space |-> bank.d_inputs]

\* ------------------------------------------------------------ DataHandler
\* DataHandler.Return: exp_code and data; ok is exp_code == EXP_NONE
read_return(r) ==
    IF r.ok THEN [exp_code |-> EXP_NONE, data |-> r.data]
    ELSE [exp_code |-> EXP_DATA_ADDRESS, data |-> <<>>]

hdl_read_coils(bank, address, count) == read_return(get_coils(bank, address, count))
hdl_read_d_inputs(bank, address, count) == read_return(get_discrete_inputs(bank, address, count))
hdl_read_h_regs(bank, address, count) == read_return(get_holding_registers(bank, address, count))
hdl_read_i_regs(bank, address, count) == read_return(get_input_registers(bank, address, count))

\* a write_coils that writes the discrete inputs
hdl_write_coils_to_d_inputs(bank, address, bits_l) ==
    LET r == set_discrete_inputs(bank, address, bits_l)
    IN  [exp_code |-> IF r.ret = "True" THEN EXP_NONE ELSE EXP_DATA_ADDRESS,
         bank |-> [bank EXCEPT !.d_inputs = r.space],
         notes |-> <<>>]

\* write_coils / write_h_regs: the bank after the call, the exception code and
\* the change notifications of the call (the server always passes srv_info)
hdl_write_coils(bank, address, bits_l) ==
    LET r == set_coils(bank, address, bits_l)
    IN  [exp_code |-> IF r.ret = "True" THEN EXP_NONE ELSE EXP_DATA_ADDRESS,
         bank |-> [bank EXCEPT !.coils = r.space],
         notes |-> List([k \in 1..Len(r.changes) |->
                      [space |-> "coils", address |-> r.changes[k].address,
                       from_value |-> r.changes[k].from_value,
                       to_value |-> r.changes[k].to_value]])]

hdl_write_h_regs(bank, address, words_l) ==
    LET r == set_holding_registers(bank, address, words_l)
    IN  [exp_code |-> IF r.ret = "True" THEN EXP_NONE ELSE EXP_DATA_ADDRESS,
         bank |-> [bank EXCEPT !.h_regs = r.space],
         notes |-> List([k \in 1..Len(r.changes) |->
                      [space |-> "h_regs", address |-> r.changes[k].address,
                       from_value |-> r.changes[k].from_value,
                       to_value |-> r.changes[k].to_value]])]

\* ------------------------------------------------------------ self.data_hdl
\* The server is the record srv: bank, device_id, and data_hdl when the
\* application gave a data handler of its own.  Such a handler is a subclass
\* of DataHandler like MyDataHandler of examples/server_allow.py: each method
\* returns Return(exp_code=...) for the clients it refuses (read_exp for the
\* read_ methods, write_exp for the write_ methods, EXP_NONE when it does not
\* refuse) and the result of super() otherwise.  Each call made to such a
\* handler, with the exp_code it returned, is recorded in the notes of the
\* request: a history of the turn that nothing in the program reads.
CallNote(method, address, count, exp_code) ==
    [space |-> method, address |-> address, from_value |-> count, to_value |-> exp_code]

\* the method of DataHandler
super_read(bank, method, address, count) ==
    CASE method = "read_coils" -> hdl_read_coils(bank, address, count)
      [] method = "read_d_inputs" -> hdl_read_d_inputs(bank, address, count)
      [] method = "read_h_regs" -> hdl_read_h_regs(bank, address, count)
      [] method = "read_i_regs" -> hdl_read_i_regs(bank, address, count)

super_write(bank, method, address, values_l) ==
    CASE method = "write_coils" -> hdl_write_coils(bank, address, values_l)
      [] method = "write_h_regs" -> hdl_write_h_regs(bank, address, values_l)

\* read_ methods that pass every call to super()
data_hdl_read_super(srv, method, address, count) ==
    LET super == super_read(srv.bank, method, address, count)
    IN  [exp_code |-> super.exp_code, data |-> super.data,
         notes |-> IF "data_hdl" \in DOMAIN srv
                   THEN <<CallNote(method, address, count, super.exp_code)>> ELSE <<>>]

\* self.data_hdl.read_coils / read_d_inputs / read_h_regs / read_i_regs
data_hdl_read(srv, method, address, count) ==
    LET super == super_read(srv.bank, method, address, count)
    IN  IF "data_hdl" \notin DOMAIN srv
        THEN [exp_code |-> super.exp_code, data |-> super.data, notes |-> <<>>]
        ELSE IF srv.data_hdl.read_exp # EXP_NONE
             THEN [exp_code |-> srv.data_hdl.read_exp, data |-> <<>>,
                   notes |-> <<CallNote(method, address, count, srv.data_hdl.read_exp)>>]
             ELSE [exp_code |-> super.exp_code, data |-> super.data,
                   notes |-> <<CallNote(method, address, count, super.exp_code)>>]

\* self.data_hdl.write_coils / write_h_regs
data_hdl_write(srv, method, address, values_l) ==
    LET super == super_write(srv.bank, method, address, values_l)
    IN  IF "data_hdl" \notin DOMAIN srv THEN super
        ELSE IF srv.data_hdl.write_exp # EXP_NONE
             THEN [exp_code |-> srv.data_hdl.write_exp, bank |-> srv.bank,
                   notes |-> <<CallNote(method, address, Len(values_l),
                                        srv.data_hdl.write_exp)>>]
             ELSE [super EXCEPT
                     !.notes = <<CallNote(method, address, Len(values_l), super.exp_code)>>
                               \o @]

\* ------------------------------------------------------------ ModbusServer.PDU
\* What a function handler leaves: err is TRUE when it raised DataFormatError
\* (the worker then closes the connection), pdu is the response PDU, bank the
\* data bank after the call and notes the on_..._change calls it made.
Raised(bank) == [err |-> TRUE, pdu |-> <<>>, bank |-> bank, notes |-> <<>>]
Replied(pdu, bank, notes) == [err |-> FALSE, pdu |-> pdu, bank |-> bank, notes |-> notes]

\* a build_except that leaves a new data bank behind when it raises
build_except_new_bank(func_code, exp_status, bank) ==
    IF BOk(func_code + 128) /\ BOk(exp_status)
    THEN Replied(<<func_code + 128, exp_status>>, bank, <<>>)
    ELSE Raised(DataBankInit(DEFAULT_SIZE, DEFAULT_SIZE, DEFAULT_SIZE, DEFAULT_SIZE))

\* a build_except that leaves the function code as it was in the request
build_except_same_code(func_code, exp_status, bank) ==
    IF BOk(func_code) /\ BOk(exp_status)
    THEN Replied(<<func_code, exp_status>>, bank, <<>>)
    ELSE Raised(bank)

\* PDU.build_except: add_pack('BB', func_code + 0x80, exp_status) raises
\* DataFormatError when a value does not fit a byte
build_except(func_code, exp_status, bank) ==
    IF BOk(func_code + 128) /\ BOk(exp_status)
    THEN Replied(<<func_code + 128, exp_status>>, bank, <<>>)
    ELSE Raised(bank)

\* ------------------------------------------------------------ function handlers
\* _read_bits: Read Coils (0x01) or Read Discrete Inputs (0x02)
read_bits(srv, recv_pdu) ==
    IF Len(recv_pdu) < 5 THEN Raised(srv.bank)
    ELSE
    LET func_code == recv_pdu[1]
        start_address == UnpackH(recv_pdu, 1)
        quantity_bits == UnpackH(recv_pdu, 3)
        ret_hdl == IF func_code = READ_COILS
                   THEN data_hdl_read(srv, "read_coils", start_address, quantity_bits)
                   ELSE data_hdl_read(srv, "read_d_inputs", start_address, quantity_bits)
        b_size == (quantity_bits + 7) \div 8
    IN  IF 1 <= quantity_bits /\ quantity_bits <= 2000
        THEN IF ret_hdl.exp_code = EXP_NONE
             THEN Replied(<<func_code, b_size>> \o PackBits(ret_hdl.data, b_size), srv.bank,
                          ret_hdl.notes)
             ELSE [build_except(func_code, ret_hdl.exp_code, srv.bank)
                     EXCEPT !.notes = ret_hdl.notes]
        ELSE build_except(func_code, EXP_DATA_VALUE, srv.bank)

\* _read_words: Read Holding Registers (0x03) or Read Input Registers (0x04)
read_words(srv, recv_pdu) ==
    IF Len(recv_pdu) < 5 THEN Raised(srv.bank)
    ELSE
    LET func_code == recv_pdu[1]
        start_addr == UnpackH(recv_pdu, 1)
        quantity_regs == UnpackH(recv_pdu, 3)
        ret_hdl == IF func_code = READ_HOLDING_REGISTERS
                   THEN data_hdl_read(srv, "read_h_regs", start_addr, quantity_regs)
                   ELSE data_hdl_read(srv, "read_i_regs", start_addr, quantity_regs)
    IN  IF 1 <= quantity_regs /\ quantity_regs <= 125
        THEN IF ret_hdl.exp_code = EXP_NONE
             THEN IF \A k \in 1..Len(ret_hdl.data) : HOk(ret_hdl.data[k])
                  THEN Replied(<<func_code, quantity_regs * 2>> \o PackWords(ret_hdl.data),
                               srv.bank, ret_hdl.notes)
                  ELSE [Raised(srv.bank) EXCEPT !.notes = ret_hdl.notes]
             ELSE [build_except(func_code, ret_hdl.exp_code, srv.bank)
                     EXCEPT !.notes = ret_hdl.notes]
        ELSE build_except(func_code, EXP_DATA_VALUE, srv.bank)

\* _write_single_coil (0x05)
write_single_coil(srv, recv_pdu) ==
    IF Len(recv_pdu) < 5 THEN Raised(srv.bank)
    ELSE
    LET func_code == recv_pdu[1]
        coil_addr == UnpackH(recv_pdu, 1)
        coil_value == UnpackH(recv_pdu, 3)
        coil_as_bool == (coil_value = 65280)
        ret_hdl == data_hdl_write(srv, "write_coils", coil_addr, <<coil_as_bool>>)
    IN  IF ret_hdl.exp_code = EXP_NONE
        THEN Replied(<<func_code>> \o PackH(coil_addr) \o PackH(coil_value),
                     ret_hdl.bank, ret_hdl.notes)
        ELSE [build_except(func_code, ret_hdl.exp_code, ret_hdl.bank)
                EXCEPT !.notes = ret_hdl.notes]

\* _write_single_register (0x06)
write_single_register(srv, recv_pdu) ==
    IF Len(recv_pdu) < 5 THEN Raised(srv.bank)
    ELSE
    LET func_code == recv_pdu[1]
        reg_addr == UnpackH(recv_pdu, 1)
        reg_value == UnpackH(recv_pdu, 3)
        ret_hdl == data_hdl_write(srv, "write_h_regs", reg_addr, <<reg_value>>)
    IN  IF ret_hdl.exp_code = EXP_NONE
        THEN Replied(<<func_code>> \o PackH(reg_addr) \o PackH(reg_value),
                     ret_hdl.bank, ret_hdl.notes)
        ELSE [build_except(func_code, ret_hdl.exp_code, ret_hdl.bank)
                EXCEPT !.notes = ret_hdl.notes]

\* _write_multiple_coils (0x0F)
write_multiple_coils(srv, recv_pdu) ==
    IF Len(recv_pdu) < 6 THEN Raised(srv.bank)
    ELSE
    LET func_code == recv_pdu[1]
        start_addr == UnpackH(recv_pdu, 1)
        quantity_bits == UnpackH(recv_pdu, 3)
        byte_count == recv_pdu[6]
        qty_bits_ok == 1 <= quantity_bits /\ quantity_bits <= 1968
        b_count_ok == byte_count >= (quantity_bits + 7) \div 8
        pdu_len_ok == Len(SliceFrom(recv_pdu, 6)) >= byte_count
        bits_l == List([i \in 1..quantity_bits |->
                     test_bit(recv_pdu[(i - 1) \div 8 + 6 + 1], (i - 1) % 8)])
        ret_hdl == data_hdl_write(srv, "write_coils", start_addr, bits_l)
    IN  IF qty_bits_ok /\ b_count_ok /\ pdu_len_ok
        THEN IF ret_hdl.exp_code = EXP_NONE
             THEN Replied(<<func_code>> \o PackH(start_addr) \o PackH(quantity_bits),
                          ret_hdl.bank, ret_hdl.notes)
             ELSE [build_except(func_code, ret_hdl.exp_code, ret_hdl.bank)
                     EXCEPT !.notes = ret_hdl.notes]
        ELSE build_except(func_code, EXP_DATA_VALUE, srv.bank)

\* _write_multiple_registers (0x10)
write_multiple_registers(srv, recv_pdu) ==
    IF Len(recv_pdu) < 6 THEN Raised(srv.bank)
    ELSE
    LET func_code == recv_pdu[1]
        start_addr == UnpackH(recv_pdu, 1)
        quantity_regs == UnpackH(recv_pdu, 3)
        byte_count == recv_pdu[6]
        qty_regs_ok == 1 <= quantity_regs /\ quantity_regs <= 123
        b_count_ok == byte_count = quantity_regs * 2
        pdu_len_ok == Len(SliceFrom(recv_pdu, 6)) >= byte_count
        regs_l == List([i \in 1..quantity_regs |-> UnpackH(recv_pdu, (i - 1) * 2 + 6)])
        ret_hdl == data_hdl_write(srv, "write_h_regs", start_addr, regs_l)
    IN  IF qty_regs_ok /\ b_count_ok /\ pdu_len_ok
        THEN IF ret_hdl.exp_code = EXP_NONE
             THEN Replied(<<func_code>> \o PackH(start_addr) \o PackH(quantity_regs),
                          ret_hdl.bank, ret_hdl.notes)
             ELSE [build_except(func_code, ret_hdl.exp_code, ret_hdl.bank)
                     EXCEPT !.notes = ret_hdl.notes]
        ELSE build_except(func_code, EXP_DATA_VALUE, srv.bank)

\* a function 0x17 that reads the registers before it writes
read_write_multiple_registers(srv, recv_pdu) ==
    IF Len(recv_pdu) < 10 THEN Raised(srv.bank)
    ELSE
    LET func_code == recv_pdu[1]
        read_start_addr == UnpackH(recv_pdu, 1)
        read_quantity_regs == UnpackH(recv_pdu, 3)
        write_start_addr == UnpackH(recv_pdu, 5)
        write_quantity_regs == UnpackH(recv_pdu, 7)
        byte_count == recv_pdu[10]
        regs_l == List([i \in 1..write_quantity_regs |-> UnpackH(recv_pdu, (i - 1) * 2 + 10)])
        ret_r == data_hdl_read(srv, "read_h_regs", read_start_addr, read_quantity_regs)
        ret_w == data_hdl_write(srv, "write_h_regs", write_start_addr, regs_l)
    IN  IF /\ 1 <= write_quantity_regs /\ write_quantity_regs <= 123
           /\ byte_count = write_quantity_regs * 2
           /\ Len(SliceFrom(recv_pdu, 10)) >= byte_count
           /\ 1 <= read_quantity_regs /\ read_quantity_regs <= 123
        THEN IF ret_r.exp_code # EXP_NONE
             THEN [build_except(func_code, ret_r.exp_code, srv.bank) EXCEPT !.notes = ret_r.notes]
             ELSE IF ret_w.exp_code # EXP_NONE
                  THEN [build_except(func_code, ret_w.exp_code, srv.bank)
                          EXCEPT !.notes = ret_r.notes \o ret_w.notes]
                  ELSE Replied(<<func_code, read_quantity_regs * 2>> \o PackWords(ret_r.data),
                               ret_w.bank, ret_r.notes \o ret_w.notes)
        ELSE build_except(func_code, EXP_DATA_VALUE, srv.bank)

\* _write_read_multiple_registers (0x17)
write_read_multiple_registers(srv, recv_pdu) ==
    IF Len(recv_pdu) < 10 THEN Raised(srv.bank)
    ELSE
    LET func_code == recv_pdu[1]
        read_start_addr == UnpackH(recv_pdu, 1)
        read_quantity_regs == UnpackH(recv_pdu, 3)
        write_start_addr == UnpackH(recv_pdu, 5)
        write_quantity_regs == UnpackH(recv_pdu, 7)
        byte_count == recv_pdu[10]
        write_qty_regs_ok == 1 <= write_quantity_regs /\ write_quantity_regs <= 123
        write_b_count_ok == byte_count = write_quantity_regs * 2
        write_pdu_len_ok == Len(SliceFrom(recv_pdu, 10)) >= byte_count
        read_qty_regs_ok == 1 <= read_quantity_regs /\ read_quantity_regs <= 123
        regs_l == List([i \in 1..write_quantity_regs |-> UnpackH(recv_pdu, (i - 1) * 2 + 10)])
        ret_w == data_hdl_write(srv, "write_h_regs", write_start_addr, regs_l)
        ret_r == data_hdl_read([srv EXCEPT !.bank = ret_w.bank], "read_h_regs",
                               read_start_addr, read_quantity_regs)
    IN  IF write_qty_regs_ok /\ write_b_count_ok /\ write_pdu_len_ok /\ read_qty_regs_ok
        THEN IF ret_w.exp_code = EXP_NONE
             THEN IF ret_r.exp_code = EXP_NONE
                  THEN IF \A k \in 1..Len(ret_r.data) : HOk(ret_r.data[k])
                       THEN Replied(<<func_code, read_quantity_regs * 2>> \o PackWords(ret_r.data),
                                    ret_w.bank, ret_w.notes \o ret_r.notes)
                       ELSE [Raised(ret_w.bank) EXCEPT !.notes = ret_w.notes \o ret_r.notes]
                  ELSE [build_except(func_code, ret_r.exp_code, ret_w.bank)
                          EXCEPT !.notes = ret_w.notes \o ret_r.notes]
             ELSE [build_except(func_code, ret_w.exp_code, ret_w.bank)
                     EXCEPT !.notes = ret_w.notes]
        ELSE build_except(func_code, EXP_DATA_VALUE, srv.bank)

\* ------------------------------------------------------------ device identification
\* DeviceIdentification.items(start, end): the (id, value) pairs of the stored
\* objects with start <= id <= end, by ascending id
RECURSIVE items_of(_, _)
items_of(objs, ids) ==
    IF ids = {} THEN <<>>
    ELSE LET obj_id == CHOOSE i \in ids : \A j \in ids : i <= j
         IN  <<[id |-> obj_id, value |-> objs[obj_id]]>> \o items_of(objs, ids \ {obj_id})

\* the stored objects after start, up to end
items_after(objs, start, end) ==
    items_of(objs, {obj_id \in DOMAIN objs : start < obj_id /\ obj_id <= end})

items(objs, start, end) ==
    items_of(objs, {obj_id \in DOMAIN objs : start <= obj_id /\ obj_id <= end})

\* The loop that packs the requested objects: the state is the data part, the
\* number of objects packed and the more_follow / next_obj_id fields.  An
\* object is skipped, and the loop left, when adding it would pass MAX_PDU_SIZE.
\* (the state of each turn of the loop is a value of its own: s)
RECURSIVE pack_objects(_, _, _)
pack_objects(req_objects_l, k, st) ==
    IF k > Len(req_objects_l) THEN st
    ELSE CHOOSE next \in
           {IF 7 + Len(s.obj_data_part) + 2 + Len(obj.value) > MAX_PDU_SIZE
            THEN [s EXCEPT !.more_follow = 255, !.next_obj_id = obj.id]
            ELSE pack_objects(req_objects_l, k + 1,
                   [s EXCEPT !.obj_data_part = @ \o <<obj.id, Len(obj.value)>> \o obj.value,
                             !.number_of_objs = @ + 1]) :
              s \in {st}, obj \in {req_objects_l[k]}} : TRUE

\* _encapsulated_interface_transport (0x2B)
encapsulated_interface_transport(srv, recv_pdu) ==
    LET func_code == recv_pdu[1]
        mei_type == recv_pdu[2]
        device_id_code == recv_pdu[3]
        object_id == recv_pdu[4]
        objs == srv.device_id.objs
        req_objects_l ==
            CASE device_id_code = 1 -> items(objs, object_id, 2)
              [] device_id_code = 2 -> items(objs, Max(object_id, 3), 127)
              [] device_id_code = 3 -> items(objs, Max(object_id, 128), 255)
              [] OTHER -> items(objs, object_id, object_id)
        packed == {pack_objects(l, 1, [obj_data_part |-> <<>>, number_of_objs |-> 0,
                                       more_follow |-> 0, next_obj_id |-> 0]) :
                     l \in {req_objects_l}}
    IN  IF Len(recv_pdu) < 2 THEN Raised(srv.bank)
        ELSE IF mei_type = MEI_TYPE_READ_DEVICE_ID
        THEN IF ~srv.device_id.configured
             THEN build_except(func_code, EXP_DATA_ADDRESS, srv.bank)
             ELSE IF Len(recv_pdu) < 4 THEN Raised(srv.bank)
             ELSE IF device_id_code \notin {1, 2, 3, 4}
                  THEN build_except(func_code, EXP_DATA_VALUE, srv.bank)
                  ELSE CHOOSE r \in
                         {Replied(<<func_code, mei_type, device_id_code, 131, st.more_follow,
                                    st.next_obj_id, st.number_of_objs>> \o st.obj_data_part,
                                  srv.bank, <<>>) : st \in packed} : TRUE
        ELSE build_except(func_code, EXP_DATA_ADDRESS, srv.bank)

\* ------------------------------------------------------------ engine
\* _internal_engine: the function of _func_map for the request's function
\* code; a KeyError (no such function) builds the illegal-function exception
internal_engine(srv, recv_pdu) ==
    LET func_code == recv_pdu[1]
    IN  CASE func_code \in {READ_COILS, READ_DISCRETE_INPUTS} -> read_bits(srv, recv_pdu)
          [] func_code \in {READ_HOLDING_REGISTERS, READ_INPUT_REGISTERS} ->
                read_words(srv, recv_pdu)
          [] func_code = WRITE_SINGLE_COIL -> write_single_coil(srv, recv_pdu)
          [] func_code = WRITE_SINGLE_REGISTER -> write_single_register(srv, recv_pdu)
          [] func_code = WRITE_MULTIPLE_COILS -> write_multiple_coils(srv, recv_pdu)
          [] func_code = WRITE_MULTIPLE_REGISTERS -> write_multiple_registers(srv, recv_pdu)
          [] func_code = WRITE_READ_MULTIPLE_REGISTERS ->
                write_read_multiple_registers(srv, recv_pdu)
          [] func_code = ENCAPSULATED_INTERFACE_TRANSPORT ->
                encapsulated_interface_transport(srv, recv_pdu)
          [] OTHER -> build_except(func_code, EXP_ILLEGAL_FUNCTION, srv.bank)

\* ------------------------------------------------------------ MBAP
\* struct.pack('>HHHB', transaction_id, protocol_id, length, unit_id)
mbap_raw(m) == PackH(m.transaction_id) \o PackH(m.protocol_id) \o PackH(m.length)
               \o <<m.unit_id>>

\* struct.unpack('>HHHB', value) of a 7 bytes header
mbap_decode(value) ==
    [transaction_id |-> UnpackH(value, 0), protocol_id |-> UnpackH(value, 2),
     length |-> UnpackH(value, 4), unit_id |-> value[7]]

\* a setter that takes any length
mbap_valid_any_length(m) == m.protocol_id = 0

\* MBAP.raw setter: the header's content is consistent (DataFormatError otherwise)
mbap_valid(m) == m.protocol_id = 0 /\ 2 < m.length /\ m.length < 256

\* an _engine that calls the internal engine whatever ext_engine is
engine_internal(srv, recv_pdu) == internal_engine(srv, recv_pdu)

\* _engine: the external engine when the server was given one, the internal
\* one otherwise.  srv.ext_engine is what the external engine does with the
\* session data of this request: it raises, or it leaves pdu in
\* session_data.response.pdu.
engine(srv, recv_pdu) ==
    IF "ext_engine" \in DOMAIN srv
    THEN IF srv.ext_engine.raises
         THEN Raised(srv.bank)
         ELSE Replied(srv.ext_engine.pdu, srv.bank, <<>>)
    ELSE internal_engine(srv, recv_pdu)

\* SessionData.set_response_mbap
set_response_mbap(request_mbap) ==
    [transaction_id |-> request_mbap.transaction_id,
     protocol_id |-> request_mbap.protocol_id,
     length |-> 0,
     unit_id |-> request_mbap.unit_id]

\* a length field that counts the PDU without the unit id
frame_raw_pdu_length(mbap, pdu) == mbap_raw([mbap EXCEPT !.length = Len(pdu)]) \o pdu

\* Frame.raw: the length field is set from the PDU, then mbap.raw + pdu.raw
frame_raw(mbap, pdu) == mbap_raw([mbap EXCEPT !.length = Len(pdu) + 1]) \o pdu

\* One turn of the loop of ModbusService.handle on the bytes `rx` received so
\* far, which hold a complete header: what the worker does with the request.
\*   close    TRUE when an exception ends the loop and closes the socket
\*   tx       the response frame sent (<<>> when none)
\*   used     the number of bytes of rx consumed
service_turn(srv, rx) ==
    LET request_mbap == mbap_decode(SubSeq(rx, 1, 7))
        request_pdu == SubSeq(rx, 8, 7 + request_mbap.length - 1)
    IN  IF ~mbap_valid(request_mbap)
        THEN [close |-> TRUE, tx |-> <<>>, used |-> 7, bank |-> srv.bank, notes |-> <<>>,
              request |-> SubSeq(rx, 1, 7)]
        ELSE CHOOSE turn \in
               {IF out.err
                THEN [close |-> TRUE, tx |-> <<>>, used |-> 7 + Len(request_pdu),
                      bank |-> out.bank, notes |-> out.notes,
                      request |-> SubSeq(rx, 1, 7 + Len(request_pdu))]
                ELSE [close |-> FALSE,
                      tx |-> frame_raw(set_response_mbap(request_mbap), out.pdu),
                      used |-> 7 + Len(request_pdu), bank |-> out.bank, notes |-> out.notes,
                      request |-> SubSeq(rx, 1, 7 + Len(request_pdu))] :
                  out \in {engine(srv, request_pdu)}} : TRUE

\* the worker can take a turn: a header is there, and the PDU it announces
\* (the worker blocks in _recv_all until then)
service_ready(rx) ==
    /\ Len(rx) >= 7
    /\ LET m == mbap_decode(SubSeq(rx, 1, 7))
       IN  mbap_valid(m) => Len(rx) >= 7 + m.length - 1

\* ------------------------------------------------------------ ModbusClient
\* A call of a request method: m is the method, the other fields its arguments
\* (addr: bit_addr / reg_addr / bits_addr / regs_addr / write_addr, nb: bit_nb /
\* reg_nb / read_nb, vals: bit_value / reg_value as a list of one, bits_value /
\* regs_value / write_values, r_addr: read_addr, pdu: custom_request's pdu).
NewCall(m, addr, nb, vals, r_addr, read_code, object_id, pdu) ==
    [m |-> m, addr |-> addr, nb |-> nb, vals |-> vals, r_addr |-> r_addr,
     read_code |-> read_code, object_id |-> object_id, pdu |-> pdu]

ReadMethods == {"read_coils", "read_discrete_inputs", "read_holding_registers",
                "read_input_registers"}
BitReadMethods == {"read_coils", "read_discrete_inputs"}

\* no check of the register value
reg_value_unchecked(reg) == TRUE

\* 0 <= int(reg) <= 0xffff
reg_value_ok(reg) == 0 <= reg /\ reg <= 65535

\* The "check params" part of each method, and the check of the register
\* values made while the PDU is built: TRUE when the call raises ValueError.
raises_value_error(c) ==
    CASE c.m \in BitReadMethods ->
            \/ ~(0 <= c.addr /\ c.addr <= 65535)
            \/ ~(1 <= c.nb /\ c.nb <= 2000)
            \/ c.addr + c.nb > 65536
      [] c.m \in ReadMethods \ BitReadMethods ->
            \/ ~(0 <= c.addr /\ c.addr <= 65535)
            \/ ~(1 <= c.nb /\ c.nb <= 125)
            \/ c.addr + c.nb > 65536
      [] c.m = "read_device_identification" ->
            \/ ~(1 <= c.read_code /\ c.read_code <= 4)
            \/ ~(0 <= c.object_id /\ c.object_id <= 255)
      [] c.m = "write_single_coil" -> ~(0 <= c.addr /\ c.addr <= 65535)
      [] c.m = "write_single_register" ->
            \/ ~(0 <= c.addr /\ c.addr <= 65535)
            \/ ~reg_value_ok(c.vals[1])
      [] c.m = "write_multiple_coils" ->
            \/ ~(0 <= c.addr /\ c.addr <= 65535)
            \/ ~(1 <= Len(c.vals) /\ Len(c.vals) <= 1968)
            \/ c.addr + Len(c.vals) > 65536
      [] c.m = "write_multiple_registers" ->
            \/ ~(0 <= c.addr /\ c.addr <= 65535)
            \/ ~(1 <= Len(c.vals) /\ Len(c.vals) <= 123)
            \/ c.addr + Len(c.vals) > 65536
            \/ \E k \in 1..Len(c.vals) : ~reg_value_ok(c.vals[k])
      [] c.m = "write_read_multiple_registers" ->
            \/ ~(0 <= c.addr /\ c.addr <= 65535)
            \/ ~(1 <= Len(c.vals) /\ Len(c.vals) <= 121)
            \/ c.addr + Len(c.vals) > 65536
            \/ ~(0 <= c.r_addr /\ c.r_addr <= 65535)
            \/ ~(1 <= c.nb /\ c.nb <= 125)
            \/ c.r_addr + c.nb > 65536
            \/ \E k \in 1..Len(c.vals) : ~reg_value_ok(c.vals[k])
      [] OTHER -> FALSE

\* the function code of a typed request
func_of(m) ==
    CASE m = "read_coils" -> READ_COILS
      [] m = "read_discrete_inputs" -> READ_DISCRETE_INPUTS
      [] m = "read_holding_registers" -> READ_HOLDING_REGISTERS
      [] m = "read_input_registers" -> READ_INPUT_REGISTERS
      [] m = "write_single_coil" -> WRITE_SINGLE_COIL
      [] m = "write_single_register" -> WRITE_SINGLE_REGISTER
      [] m = "write_multiple_coils" -> WRITE_MULTIPLE_COILS
      [] m = "write_multiple_registers" -> WRITE_MULTIPLE_REGISTERS
      [] m = "write_read_multiple_registers" -> WRITE_READ_MULTIPLE_REGISTERS
      [] OTHER -> ENCAPSULATED_INTERFACE_TRANSPORT

\* the two bytes of "on" in the wrong order
bit_value_raw_swapped(bit_value) == IF bit_value THEN 255 ELSE 0

\* bit_value_raw = (0x0000, 0xff00)[bool(bit_value)]
bit_value_raw(bit_value) == IF bit_value THEN 65280 ELSE 0

\* the request PDU a method builds (tx_pdu)
tx_pdu_of(c) ==
    CASE c.m \in ReadMethods -> <<func_of(c.m)>> \o PackH(c.addr) \o PackH(c.nb)
      [] c.m = "read_device_identification" ->
            <<ENCAPSULATED_INTERFACE_TRANSPORT, MEI_TYPE_READ_DEVICE_ID, c.read_code,
              c.object_id>>
      [] c.m = "write_single_coil" ->
            <<WRITE_SINGLE_COIL>> \o PackH(c.addr) \o PackH(bit_value_raw(c.vals[1]))
      [] c.m = "write_single_register" ->
            <<WRITE_SINGLE_REGISTER>> \o PackH(c.addr) \o PackH(c.vals[1])
      [] c.m = "write_multiple_coils" ->
            LET pdu_coils_part == PackBits(c.vals, byte_length(Len(c.vals)))
            IN  <<WRITE_MULTIPLE_COILS>> \o PackH(c.addr) \o PackH(Len(c.vals))
                \o <<Len(pdu_coils_part)>> \o pdu_coils_part
      [] c.m = "write_multiple_registers" ->
            LET pdu_regs_part == PackWords(c.vals)
            IN  <<WRITE_MULTIPLE_REGISTERS>> \o PackH(c.addr) \o PackH(Len(c.vals))
                \o <<Len(pdu_regs_part)>> \o pdu_regs_part
      [] c.m = "write_read_multiple_registers" ->
            LET pdu_regs_part == PackWords(c.vals)
            IN  <<WRITE_READ_MULTIPLE_REGISTERS>> \o PackH(c.r_addr) \o PackH(c.nb)
                \o PackH(c.addr) \o PackH(Len(c.vals)) \o <<Len(pdu_regs_part)>>
                \o pdu_regs_part
      [] OTHER -> c.pdu

\* the rx_min_len a method gives _req_pdu
rx_min_len_of(m) ==
    CASE m \in ReadMethods -> 3
      [] m = "read_device_identification" -> 7
      [] m \in {"write_single_coil", "write_single_register", "write_multiple_coils",
                "write_multiple_registers"} -> 5
      [] m = "write_read_multiple_registers" -> 4
      [] OTHER -> 2

\* what a method returns when a request fails
failure_of(m) ==
    IF m \in {"write_single_coil", "write_single_register", "write_multiple_coils",
              "write_multiple_registers"}
    THEN [kind |-> "False", data |-> <<>>]
    ELSE [kind |-> "None", data |-> <<>>]

\* the objects loop of read_device_identification: err when an object does
\* not fit the PDU (IndexError, or a value shorter than its length field)
RECURSIVE parse_objects(_, _, _, _)
parse_objects(rx_pdu, n, pdu_offset, objects_by_id) ==
    IF n = 0 THEN [err |-> FALSE, objects_by_id |-> objects_by_id]
    ELSE IF pdu_offset + 1 >= Len(rx_pdu)
         THEN [err |-> TRUE, objects_by_id |-> objects_by_id]
         ELSE LET obj_id == rx_pdu[pdu_offset + 1]
                  obj_len == rx_pdu[pdu_offset + 2]
                  obj_value == Slice(rx_pdu, pdu_offset + 2, pdu_offset + 2 + obj_len)
              IN  IF obj_len # Len(obj_value)
                  THEN [err |-> TRUE, objects_by_id |-> objects_by_id]
                  ELSE parse_objects(rx_pdu, n - 1, pdu_offset + 2 + obj_len,
                         [i \in DOMAIN objects_by_id \cup {obj_id} |->
                            IF i = obj_id THEN obj_value ELSE objects_by_id[i]])

\* The decoding a method makes of the PDU that _req_pdu returned.  err is TRUE
\* when it raises _NetworkError(MB_RECV_ERR); value is what it returns.
decode_reply(c, rx_pdu) ==
    CASE c.m \in BitReadMethods ->
            LET byte_count == rx_pdu[2]
                rx_pdu_coils == SliceFrom(rx_pdu, 2)
            IN  IF byte_count < byte_length(c.nb) \/ byte_count # Len(rx_pdu_coils)
                THEN [err |-> TRUE, value |-> failure_of(c.m)]
                ELSE [err |-> FALSE,
                      value |-> [kind |-> "list",
                                 data |-> List([i \in 1..c.nb |->
                                             test_bit(rx_pdu_coils[(i - 1) \div 8 + 1],
                                                      (i - 1) % 8)])]]
      [] c.m \in (ReadMethods \ BitReadMethods) \cup {"write_read_multiple_registers"} ->
            LET byte_count == rx_pdu[2]
                f_regs == SliceFrom(rx_pdu, 2)
            IN  IF byte_count < 2 * c.nb \/ byte_count # Len(f_regs)
                THEN [err |-> TRUE, value |-> failure_of(c.m)]
                ELSE [err |-> FALSE,
                      value |-> [kind |-> "list",
                                 data |-> List([i \in 1..c.nb |-> UnpackH(f_regs, (i - 1) * 2)])]]
      [] c.m = "read_device_identification" ->
            LET objs == parse_objects(rx_pdu, rx_pdu[7], 7, [i \in {} |-> <<>>])
            IN  IF objs.err THEN [err |-> TRUE, value |-> failure_of(c.m)]
                ELSE [err |-> FALSE,
                      value |-> [kind |-> "response",
                                 data |-> [conformity_level |-> rx_pdu[4],
                                           more_follows |-> rx_pdu[5],
                                           next_object_id |-> rx_pdu[6],
                                           objects_by_id |-> objs.objects_by_id]]]
      [] c.m = "write_single_coil" ->
            IF UnpackH(rx_pdu, 1) # c.addr \/ UnpackH(rx_pdu, 3) # bit_value_raw(c.vals[1])
            THEN [err |-> TRUE, value |-> failure_of(c.m)]
            ELSE [err |-> FALSE, value |-> [kind |-> "True", data |-> <<>>]]
      [] c.m = "write_single_register" ->
            IF UnpackH(rx_pdu, 1) # c.addr \/ UnpackH(rx_pdu, 3) # c.vals[1]
            THEN [err |-> TRUE, value |-> failure_of(c.m)]
            ELSE [err |-> FALSE, value |-> [kind |-> "True", data |-> <<>>]]
      [] c.m \in {"write_multiple_coils", "write_multiple_registers"} ->
            LET write_ok == UnpackH(rx_pdu, 1) = c.addr /\ UnpackH(rx_pdu, 3) = Len(c.vals)
            IN  [err |-> FALSE,
                 value |-> [kind |-> IF write_ok THEN "True" ELSE "False", data |-> <<>>]]
      [] OTHER -> [err |-> FALSE, value |-> [kind |-> "pdu", data |-> rx_pdu]]

\* 'localhost', the default of host (a str is the sequence of its characters'
\* codes)
DefaultHost == <<108, 111, 99, 97, 108, 104, 111, 115, 116>>

\* the default of port
DefaultPort == 502

\* The client object: sock is the state of _sock ("open" when fileno() > 0),
\* sock_addr the (host, port) that _sock was last connected to, the rest are
\* the attributes of the same names.
NewClient(unit_id, auto_open, auto_close) ==
    [sock |-> "closed", last_error |-> MB_NO_ERR, last_except |-> EXP_NONE,
     transaction_id |-> 0, unit_id |-> unit_id, auto_open |-> auto_open,
     auto_close |-> auto_close, host |-> DefaultHost, port |-> DefaultPort,
     sock_addr |-> <<>>]

\* str.split(sep): the parts of s between the separators
RECURSIVE split_from(_, _, _, _)
split_from(s, sep, k, part) ==
    IF k > Len(s) THEN <<part>>
    ELSE IF s[k] = sep THEN <<part>> \o split_from(s, sep, k + 1, <<>>)
    ELSE split_from(s, sep, k + 1, Append(part, s[k]))

split(s, sep) == split_from(s, sep, 1, <<>>)

IsDigit(ch) == 48 <= ch /\ ch <= 57
IsHexDigit(ch) == IsDigit(ch) \/ (97 <= ch /\ ch <= 102) \/ (65 <= ch /\ ch <= 70)
IsAlpha(ch) == (97 <= ch /\ ch <= 122) \/ (65 <= ch /\ ch <= 90)

\* the number that a sequence of digits writes
RECURSIVE DecimalValue(_)
DecimalValue(digits) ==
    IF digits = <<>> THEN 0
    ELSE 10 * DecimalValue(SubSeq(digits, 1, Len(digits) - 1)) + (digits[Len(digits)] - 48)

\* socket.inet_pton(AF_INET, host_str) succeeds: four numbers 0..255 of one
\* to three digits, without a leading zero, between dots
inet_pton4_ok(host_str) ==
    LET parts == split(host_str, 46)
    IN  /\ Len(parts) = 4
        /\ \A i \in 1..4 :
              /\ Len(parts[i]) \in 1..3
              /\ \A k \in 1..Len(parts[i]) : IsDigit(parts[i][k])
              /\ Len(parts[i]) > 1 => parts[i][1] # 48
              /\ DecimalValue(parts[i]) <= 255

\* socket.inet_pton(AF_INET6, host_str) succeeds, for an address without a
\* dotted IPv4 tail: groups of one to four hex digits between colons, eight of
\* them, or less with one '::' standing for the groups left out
inet_pton6_ok(host_str) ==
    LET parts == split(host_str, 58)
        n == Len(parts)
        gaps == {i \in 1..(Len(host_str) - 1) : host_str[i] = 58 /\ host_str[i + 1] = 58}
        groups == {i \in 1..n : parts[i] # <<>>}
    IN  /\ n >= 3
        /\ Cardinality(gaps) <= 1
        /\ \A i \in groups :
              /\ Len(parts[i]) <= 4
              /\ \A k \in 1..Len(parts[i]) : IsHexDigit(parts[i][k])
        /\ parts[1] = <<>> => 1 \in gaps
        /\ parts[n] = <<>> => (Len(host_str) - 1) \in gaps
        /\ IF gaps = {} THEN Cardinality(groups) = 8 ELSE Cardinality(groups) <= 7

\* re_part_ok.match(part): '(?!-)[a-z0-9-_]{1,63}(?<!-)$', ignoring case
re_part_ok(part) ==
    /\ Len(part) \in 1..63
    /\ \A k \in 1..Len(part) : IsAlpha(part[k]) \/ IsDigit(part[k]) \/ part[k] \in {45, 95}
    /\ part[1] # 45
    /\ part[Len(part)] # 45

\* utils.valid_host, for a str that is not empty
valid_host(host_str) ==
    \/ inet_pton4_ok(host_str)
    \/ inet_pton6_ok(host_str)
    \/ /\ Len(host_str) <= 255
       /\ LET stripped == IF host_str[Len(host_str)] = 46
                          THEN SubSeq(host_str, 1, Len(host_str) - 1) ELSE host_str
              parts == split(stripped, 46)
          IN  \A i \in 1..Len(parts) : re_part_ok(parts[i])

\* A value given to a setter: type is the name of its Python type, v the
\* sequence of characters of a str or the number of an int.
\* What a setter does: raised is "none" or the name of the exception.
SetterDone(cl) == [raised |-> "none", cl |-> cl]
SetterRaised(exc, cl) == [raised |-> exc, cl |-> cl]

\* a port setter that keeps the socket as it is
port_set_no_close(cl, value) ==
    IF value.type # "int" THEN SetterRaised("TypeError", cl)
    ELSE IF 0 < value.v /\ value.v < 65536
         THEN SetterDone([cl EXCEPT !.port = value.v])
         ELSE SetterRaised("ValueError", cl)

\* the setter of host; valid_host('') raises IndexError at host_str[-1]
host_set(cl, value) ==
    IF value.type # "str" THEN SetterRaised("TypeError", cl)
    ELSE IF value.v = <<>> THEN SetterRaised("IndexError", cl)
    ELSE IF valid_host(value.v)
         THEN IF cl.host # value.v
              THEN SetterDone([cl EXCEPT !.sock = "closed", !.host = value.v])
              ELSE SetterDone(cl)
         ELSE SetterRaised("ValueError", cl)

\* the setter of port
port_set(cl, value) ==
    IF value.type # "int" THEN SetterRaised("TypeError", cl)
    ELSE IF 0 < value.v /\ value.v < 65536
         THEN IF cl.port # value.v
              THEN SetterDone([cl EXCEPT !.sock = "closed", !.port = value.v])
              ELSE SetterDone(cl)
         ELSE SetterRaised("ValueError", cl)

\* an internal exception: exc is "none", "net" (_NetworkError) or "mbexc"
\* (_ModbusExcept), code its code
NoExcept == [exc |-> "none", code |-> 0]
NetworkError(code) == [exc |-> "net", code |-> code]
ModbusExcept(code) == [exc |-> "mbexc", code |-> code]

req_init(cl) == [cl EXCEPT !.last_error = MB_NO_ERR, !.last_except = EXP_NONE]

\* a handler that records the error kind and drops the exception code
req_except_handler_no_code(cl, e) ==
    CASE e.exc = "net" -> [cl EXCEPT !.last_error = e.code]
      [] e.exc = "mbexc" -> [cl EXCEPT !.last_error = MB_EXCEPT_ERR]
      [] OTHER -> cl

req_except_handler(cl, e) ==
    CASE e.exc = "net" -> [cl EXCEPT !.last_error = e.code]
      [] e.exc = "mbexc" -> [cl EXCEPT !.last_error = MB_EXCEPT_ERR, !.last_except = e.code]
      [] OTHER -> cl

\* open(): _open() closes an open socket, then connects; a failed connect
\* goes to the exception handler
open(cl, connect_ok) ==
    IF connect_ok THEN [cl EXCEPT !.sock = "open", !.sock_addr = <<cl.host, cl.port>>]
    ELSE req_except_handler([cl EXCEPT !.sock = "closed"], NetworkError(MB_CONNECT_ERR))

\* _add_mbap: the frame for a PDU, transaction_id being the number drawn
add_mbap(transaction_id, unit_id, pdu) ==
    PackH(transaction_id) \o PackH(0) \o PackH(Len(pdu) + 1) \o <<unit_id>> \o pdu

\* _send_pdu: connect_ok tells whether a connect() made here succeeds, send_how
\* how sock.send() ends ("ok", "timeout", "error").  connected tells whether a
\* connection was made, frame is what was given to the socket.
send_pdu(cl, pdu, transaction_id, connect_ok, send_how) ==
    LET do_open == cl.auto_open /\ cl.sock # "open"
    IN  IF do_open /\ ~connect_ok
        THEN [e |-> NetworkError(MB_CONNECT_ERR), cl |-> cl, connected |-> FALSE,
              frame |-> <<>>]
        ELSE LET cl1 == [cl EXCEPT !.sock = IF do_open THEN "open" ELSE @,
                                   !.sock_addr = IF do_open THEN <<cl.host, cl.port>> ELSE @,
                                   !.transaction_id = transaction_id]
                 tx_frame == add_mbap(transaction_id, cl.unit_id, pdu)
             IN  IF cl1.sock # "open"
                 THEN [e |-> NetworkError(MB_SOCK_CLOSE_ERR), cl |-> cl1,
                       connected |-> FALSE, frame |-> <<>>]
                 ELSE CASE send_how = "timeout" ->
                             [e |-> NetworkError(MB_TIMEOUT_ERR),
                              cl |-> [cl1 EXCEPT !.sock = "closed"],
                              connected |-> do_open, frame |-> <<>>]
                        [] send_how = "error" ->
                             [e |-> NetworkError(MB_SEND_ERR),
                              cl |-> [cl1 EXCEPT !.sock = "closed"],
                              connected |-> do_open, frame |-> <<>>]
                        [] OTHER ->
                             [e |-> NoExcept, cl |-> cl1, connected |-> do_open,
                              frame |-> tx_frame]

\* a header check that does not look at the unit id
mbap_err_no_unit_id(cl, f_transaction_id, f_protocol_id, f_length, f_unit_id) ==
    \/ f_transaction_id # cl.transaction_id
    \/ f_protocol_id # 0
    \/ f_length >= 256

\* _recv_pdu, "check MBAP fields": f_transaction_err or f_protocol_err or
\* f_length_err or f_unit_id_err
mbap_err(cl, f_transaction_id, f_protocol_id, f_length, f_unit_id) ==
    \/ f_transaction_id # cl.transaction_id
    \/ f_protocol_id # 0
    \/ f_length >= 256
    \/ f_unit_id # cl.unit_id

\* a _recv_pdu whose _recv leaves the socket open when recv() times out
recv_pdu_timeout_open(cl, rx, recv_how, min_len) ==
    LET short(n) == [e |-> NetworkError(IF recv_how = "timeout" THEN MB_TIMEOUT_ERR
                                        ELSE MB_RECV_ERR),
                     cl |-> IF recv_how = "timeout" THEN cl ELSE [cl EXCEPT !.sock = "closed"],
                     pdu |-> <<>>, used |-> n]
    IN  IF Len(rx) < 7 THEN short(Len(rx))
        ELSE LET f_length == UnpackH(rx, 4)
             IN  IF mbap_err(cl, UnpackH(rx, 0), UnpackH(rx, 2), f_length, rx[7])
                 THEN [e |-> NetworkError(MB_RECV_ERR),
                       cl |-> [cl EXCEPT !.sock = "closed"], pdu |-> <<>>, used |-> 7]
                 ELSE LET size == Max(0, f_length - 1)
                      IN  IF Len(rx) - 7 < size THEN short(Len(rx))
                          ELSE LET rx_pdu == Slice(rx, 7, 7 + size)
                                   cl1 == IF cl.auto_close
                                          THEN [cl EXCEPT !.sock = "closed"] ELSE cl
                                   out(e) == [e |-> e, cl |-> cl1, pdu |-> rx_pdu,
                                              used |-> 7 + size]
                               IN  IF Len(rx_pdu) < 2
                                   THEN out(NetworkError(MB_RECV_ERR))
                                   ELSE IF rx_pdu[1] >= 128
                                        THEN out(ModbusExcept(rx_pdu[2]))
                                        ELSE IF Len(rx_pdu) < min_len
                                             THEN out(NetworkError(MB_RECV_ERR))
                                             ELSE out(NoExcept)

\* _recv_pdu on the bytes rx the peer has sent.  When they end before the
\* bytes asked for, recv_how tells how the recv() ends: "eof" (b'' or a socket
\* error) or "timeout".  used is the number of bytes taken from the socket.
recv_pdu(cl, rx, recv_how, min_len) ==
    LET short(n) == [e |-> NetworkError(IF recv_how = "timeout" THEN MB_TIMEOUT_ERR
                                        ELSE MB_RECV_ERR),
                     cl |-> [cl EXCEPT !.sock = "closed"], pdu |-> <<>>, used |-> n]
    IN  IF Len(rx) < 7 THEN short(Len(rx))
        ELSE LET f_transaction_id == UnpackH(rx, 0)
                 f_protocol_id == UnpackH(rx, 2)
                 f_length == UnpackH(rx, 4)
                 f_unit_id == rx[7]
             IN  IF mbap_err(cl, f_transaction_id, f_protocol_id, f_length, f_unit_id)
                 THEN [e |-> NetworkError(MB_RECV_ERR),
                       cl |-> [cl EXCEPT !.sock = "closed"], pdu |-> <<>>, used |-> 7]
                 ELSE LET size == Max(0, f_length - 1)
                      IN  IF Len(rx) - 7 < size THEN short(Len(rx))
                          ELSE LET rx_pdu == Slice(rx, 7, 7 + size)
                                   cl1 == IF cl.auto_close
                                          THEN [cl EXCEPT !.sock = "closed"] ELSE cl
                                   out(e) == [e |-> e, cl |-> cl1, pdu |-> rx_pdu,
                                              used |-> 7 + size]
                               IN  IF Len(rx_pdu) < 2
                                   THEN out(NetworkError(MB_RECV_ERR))
                                   ELSE IF rx_pdu[1] >= 128
                                        THEN out(ModbusExcept(rx_pdu[2]))
                                        ELSE IF Len(rx_pdu) < min_len
                                             THEN out(NetworkError(MB_RECV_ERR))
                                             ELSE out(NoExcept)

\* TRUE when _recv_pdu needs no more bytes than rx holds
recv_complete(rx) ==
    /\ Len(rx) >= 7
    /\ \/ UnpackH(rx, 4) >= 256
       \/ Len(rx) - 7 >= Max(0, UnpackH(rx, 4) - 1)

\* A request method up to the end of _send_pdu.  status is "ValueError" (the
\* call raised, nothing else done), "returned" (the call is over, value is
\* what it returned) or "sent" (the frame is on the wire, the call goes on
\* with _recv_pdu).
request_begin(cl, c, transaction_id, connect_ok, send_how) ==
    IF raises_value_error(c)
    THEN [status |-> "ValueError", cl |-> cl, connected |-> FALSE, frame |-> <<>>,
          value |-> [kind |-> "ValueError", data |-> <<>>]]
    ELSE LET s == send_pdu(req_init(cl), tx_pdu_of(c), transaction_id, connect_ok, send_how)
         IN  IF s.e.exc # "none"
             THEN [status |-> "returned", cl |-> req_except_handler(s.cl, s.e),
                   connected |-> s.connected, frame |-> <<>>, value |-> failure_of(c.m)]
             ELSE [status |-> "sent", cl |-> s.cl, connected |-> s.connected,
                   frame |-> s.frame, value |-> failure_of(c.m)]

\* A request method when socket.getaddrinfo raises in _open (the host's name
\* does not resolve): socket.gaierror is raised before the try of _open and is
\* no _NetworkError, so it leaves _send_pdu, _req_pdu and the request method,
\* which raises it after _req_init.
request_gaierror(cl, c) ==
    [status |-> "gaierror", cl |-> req_init(cl), connected |-> FALSE, frame |-> <<>>,
     value |-> [kind |-> "gaierror", data |-> <<>>]]

\* The rest of the request method: _recv_pdu, the decoding of the PDU, and the
\* exception handler.
request_end(cl, c, rx, recv_how) ==
    LET r == recv_pdu(cl, rx, recv_how, rx_min_len_of(c.m))
    IN  IF r.e.exc # "none"
        THEN [cl |-> req_except_handler(r.cl, r.e), value |-> failure_of(c.m),
              used |-> r.used, rx_pdu |-> r.pdu]
        ELSE LET d == decode_reply(c, r.pdu)
             IN  IF d.err
                 THEN [cl |-> req_except_handler(r.cl, NetworkError(MB_RECV_ERR)),
                       value |-> failure_of(c.m), used |-> r.used, rx_pdu |-> r.pdu]
                 ELSE [cl |-> r.cl, value |-> d.value, used |-> r.used, rx_pdu |-> r.pdu]

\* ------------------------------------------------------------ bounds, inputs
\* the number of client calls followed in a behaviour
MaxCalls == 2

\* the transaction ids random.randint(0, 65535) is let to draw
TidSet == {1, 65535}

\* the client's unit_id (the constructor's default is 1)
UnitId == 1

\* lists of n words, all different, and of n bits, mixed in the first and the
\* last two bytes
WordPattern(n, seed) == List([k \in 1..n |-> (seed + 257 * k) % 65536])
BitPattern(n, seed) == List([k \in 1..n |-> (k + seed) % 3 = 0 /\ (k <= 16 \/ k > n - 16)])

\* <<address, number>> pairs: one item at both ends of the address space, a
\* few items, and the largest writes reaching the last address
RegRegions == {<<0, 1>>, <<65535, 1>>, <<10, 2>>, <<65413, 123>>}
BitRegions == {<<0, 1>>, <<65535, 1>>, <<7, 9>>, <<63568, 1968>>}

TypedCall(m, addr, nb, vals) == NewCall(m, addr, nb, vals, 0, 0, 0, <<>>)

ReadCalls ==
    {TypedCall(m, r[1], r[2], <<>>) :
        m \in BitReadMethods, r \in BitRegions \cup {<<0, 2000>>}}
    \cup {TypedCall(m, r[1], r[2], <<>>) :
        m \in ReadMethods \ BitReadMethods, r \in RegRegions \cup {<<0, 125>>}}

WriteCalls ==
    {TypedCall("write_multiple_registers", r[1], 0, WordPattern(r[2], seed)) :
        r \in RegRegions, seed \in {65000}}
    \cup {TypedCall("write_multiple_coils", r[1], 0, BitPattern(r[2], seed)) :
        r \in BitRegions, seed \in {0}}
    \cup {TypedCall("write_single_coil", a, 0, <<v>>) : a \in {0, 65535}, v \in BOOLEAN}
    \cup {TypedCall("write_single_register", a, 0, <<v>>) : a \in {0, 65535}, v \in {4660, 65535}}
    \cup {NewCall("write_read_multiple_registers", 10, 2, <<513, 0>>, 10, 0, 0, <<>>),
          NewCall("write_read_multiple_registers", 65415, 125, WordPattern(121, 7), 0, 0, 0,
                  <<>>)}

DeviceIdCalls ==
    {NewCall("read_device_identification", 0, 0, <<>>, 0, rc, oid, <<>>) :
        rc \in {1, 4}, oid \in {0, 2}}

CustomCall(pdu) == NewCall("custom_request", 0, 0, <<>>, 0, 0, 0, pdu)

\* custom_request with PDUs that are shorter or longer than the function asks
\* for, or ask for what the server refuses
CustomPdus ==
    {<<>>, <<1>>, <<3, 0, 0>>, <<3, 0, 0, 0, 0>>, <<3, 255, 255, 0, 2>>,
     <<6, 0, 1, 2, 3>>, <<5, 0, 1, 0, 1>>, <<16, 0, 0, 0, 1, 2, 1, 2>>,
     <<0, 0>>, <<127, 0>>, <<128, 0>>, <<200, 1, 2, 3>>,
     <<43, 14, 1, 0>>, <<43, 13, 1, 0>>, <<43, 14, 9, 0>>}

CustomCalls == {CustomCall(pdu) : pdu \in CustomPdus}

Calls == ReadCalls \cup WriteCalls \cup DeviceIdCalls \cup CustomCalls

\* custom_request with every function code, followed by nothing, by one byte,
\* and by an address and a number or value
RawPdus ==
    {<<fc>> : fc \in 0..255} \cup {<<fc, 0>> : fc \in 0..255}
    \cup {<<fc, 0, 0, 0, 1>> : fc \in 0..255}

RawCalls == {CustomCall(pdu) : pdu \in RawPdus}

WriteMethods == {"write_single_coil", "write_single_register", "write_multiple_coils",
                 "write_multiple_registers"}

NoCall == NewCall("none", 0, 0, <<>>, 0, 0, 0, <<>>)
NoValue == [kind |-> "none", data |-> <<>>]
NoTurn == [request |-> <<>>, response |-> <<>>, closed |-> FALSE, bank_changed |-> FALSE,
           notes |-> <<>>]

\* the device identification the server is given
DeviceId0 ==
    [configured |-> TRUE,
     objs |-> [i \in 0..6 |-> CASE i = 0 -> <<80, 121>>
                                [] i = 1 -> <<49>>
                                [] i = 2 -> <<49, 46, 48>>
                                [] OTHER -> <<>>]]

\* a thread that is in no call of the DataBank
NoThread(b) ==
    [pc |-> "idle", op |-> "none", address |-> 0, list |-> <<>>, srv_info |-> FALSE,
     ret |-> "none", pending |-> <<>>, log |-> <<>>, before |-> b, repeat |-> FALSE]

\* the connections a server is given, and a connection nobody has made
Conns == {1, 2}
NoConn ==
    [state |-> "none", pos |-> "check_h", rx |-> <<>>, eof |-> FALSE, tx |-> <<>>,
     changed |-> FALSE, why |-> "none", arrived |-> <<>>, log |-> <<>>,
     old |-> FALSE, late |-> FALSE]

\* a peer that has not asked for the device identification
NoMei ==
    [phase |-> "idle", code |-> 0, first_id |-> 0, request |-> <<>>, response |-> <<>>,
     closed |-> FALSE, got |-> <<>>, changed |-> FALSE, odd |-> FALSE]

\* ------------------------------------------------------------ state
\* the threads that call the DataBank at the same time: workers of the
\* server (ModbusService threads) or threads of the application
Callers == {1, 2}

\* no query made: the queue of the serial worker is empty, its thread is in
\* rtu_queries_q.get(), no worker waits
NoGateway ==
    [made |-> 0, q |-> <<>>, serial |-> [pc |-> "get", cur |-> 0], wait |-> {},
     out |-> [id |-> 0]]

\* a thread that is not in a call of the DataBank
NoCaller == [pc |-> "idle", kind |-> "none", todo |-> <<>>, i |-> 0, rets |-> <<>>]

VARIABLES
    bank,       \* the server's DataBank
    device_id,  \* the server's DeviceIdentification
    worker,     \* the ModbusService thread of the client's connection:
                \* "none", "serving" (in handle's loop) or "closed"
    c2s,        \* bytes the client sent that the worker has not received yet
    s2c,        \* bytes the worker sent that the client has not received yet
    cl,         \* the ModbusClient object
    pc,         \* where the client's caller is: "idle", "wait" (in _recv_pdu)
                \* or "done" (the method has just returned)
    cur,        \* the call in progress or just returned
    res,        \* what the call returned
    rx_pdu,     \* the PDU that the call's _recv_pdu received (<<>> when none)
    prev,       \* the call before cur, when it was a write that returned True
    ncalls,     \* number of calls made
    last,       \* the worker's last turn: request and response frames
    th,         \* a thread calling a set_ method of the DataBank
    held,       \* the locks of the DataBank that are held
    running,    \* ModbusServer._evt_running is set
    service,    \* the listening socket of the server: "started" (start() has
                \* returned, _serve has not run yet), "listening", "shutdown"
                \* (closed by stop()) or "stopped" (_serve has ended)
    conns,      \* the TCP connections of raw peers and their worker threads
    mei,        \* a peer reading the device identification, by segments
    callers,    \* the threads that call the DataBank at the same time
    committed,  \* the DataBank as the set_ calls of the callers that have left
                \* their with block make it, in the order they left it
    gw,         \* the gateway of examples/server_gateway.py: the queue of the
                \* serial worker, its thread and the workers that wait for it
    delivered   \* the on_coils_change and the on_holding_registers_change
                \* calls made, in the order they were made

srv_vars == <<bank, device_id, worker, last>>
wire_vars == <<c2s, s2c>>
cl_vars == <<cl, pc, cur, res, rx_pdu, prev, ncalls>>
par_vars == <<callers, committed>>
db_vars == <<th, held, par_vars>>
side_vars == <<gw, delivered>>
net_vars == <<running, service, conns, mei, side_vars>>
vars == <<srv_vars, wire_vars, cl_vars, db_vars, net_vars>>

\* ------------------------------------------------------------ client and server
Init ==
    /\ bank = DataBankInit(DEFAULT_SIZE, DEFAULT_SIZE, DEFAULT_SIZE, DEFAULT_SIZE)
    /\ device_id = DeviceId0
    /\ worker = "none"
    /\ c2s = <<>>
    /\ s2c = <<>>
    /\ \E auto_open \in BOOLEAN, auto_close \in BOOLEAN :
          cl = NewClient(UnitId, auto_open, auto_close)
    /\ pc = "idle"
    /\ cur = NoCall
    /\ res = NoValue
    /\ rx_pdu = <<>>
    /\ prev = NoCall
    /\ ncalls = 0
    /\ last = NoTurn
    /\ th = NoThread(bank)
    /\ held = {}
    /\ callers = [c \in Callers |-> NoCaller]
    /\ committed = bank
    /\ running = TRUE
    /\ service = "listening"
    /\ conns = [k \in Conns |-> NoConn]
    /\ mei = NoMei
    /\ gw = NoGateway
    /\ delivered = [coils |-> <<>>, h_regs |-> <<>>]

\* ModbusClient.open(): an open socket is closed first, then the server accepts
\* the connection and starts a ModbusService thread for it.
Open(connect_ok) ==
    /\ pc = "idle"
    /\ cl' = open(cl, connect_ok)
    /\ worker' = IF connect_ok THEN "serving"
                 ELSE IF worker = "serving" THEN "closed" ELSE worker
    /\ c2s' = <<>>
    /\ s2c' = <<>>
    /\ UNCHANGED <<bank, device_id, last, pc, cur, res, rx_pdu, prev, ncalls, db_vars, net_vars>>

\* ModbusClient.close(): the worker's recv returns null and its thread ends.
Close ==
    /\ pc = "idle"
    /\ cl' = [cl EXCEPT !.sock = "closed"]
    /\ worker' = IF worker = "serving" THEN "closed" ELSE worker
    /\ c2s' = <<>>
    /\ s2c' = <<>>
    /\ UNCHANGED <<bank, device_id, last, pc, cur, res, rx_pdu, prev, ncalls, db_vars, net_vars>>

\* A request method is called, and runs to the end of _send_pdu.  A send
\* that fails closes the socket.
Call(c, transaction_id, connect_ok, send_how) ==
    /\ pc = "idle"
    /\ ncalls < MaxCalls
    /\ \E b \in {request_begin(cl, c, transaction_id, connect_ok, send_how)} :
           /\ cl' = b.cl
           /\ pc' = IF b.status = "sent" THEN "wait" ELSE "done"
           /\ res' = IF b.status = "sent" THEN NoValue ELSE b.value
           /\ worker' = IF b.cl.sock = "open" /\ b.connected THEN "serving"
                        ELSE IF b.cl.sock = "closed" /\ worker = "serving" THEN "closed"
                        ELSE worker
           /\ c2s' = IF b.cl.sock = "closed" THEN <<>>
                     ELSE (IF b.connected THEN <<>> ELSE c2s) \o b.frame
           /\ s2c' = IF b.connected \/ b.cl.sock = "closed" THEN <<>> ELSE s2c
    /\ cur' = c
    /\ rx_pdu' = <<>>
    /\ ncalls' = ncalls + 1
    /\ UNCHANGED <<bank, device_id, last, prev, db_vars, net_vars>>

\* A request method is called with auto_open on and the socket closed, and
\* the name of the host does not resolve: the method raises.
CallUnresolved(c) ==
    /\ pc = "idle"
    /\ ncalls < MaxCalls
    /\ ~raises_value_error(c)
    /\ cl.auto_open /\ cl.sock # "open"
    /\ \E b \in {request_gaierror(cl, c)} :
           /\ cl' = b.cl
           /\ res' = b.value
    /\ pc' = "done"
    /\ cur' = c
    /\ rx_pdu' = <<>>
    /\ ncalls' = ncalls + 1
    /\ UNCHANGED <<srv_vars, wire_vars, prev, db_vars, net_vars>>

\* One turn of the loop of ModbusService.handle.  When it ends the loop the
\* socket is closed, and what the client sent more is lost.
WorkerTurn ==
    /\ worker = "serving"
    /\ service_ready(c2s)
    /\ \E t \in {service_turn([bank |-> bank, device_id |-> device_id], c2s)} :
           /\ bank' = t.bank
           /\ worker' = IF t.close THEN "closed" ELSE "serving"
           /\ c2s' = IF t.close THEN <<>> ELSE SliceFrom(c2s, t.used)
           /\ s2c' = s2c \o t.tx
           /\ last' = [request |-> t.request, response |-> t.tx, closed |-> t.close,
                       bank_changed |-> t.bank # bank, notes |-> t.notes]
    /\ UNCHANGED <<device_id, cl_vars, db_vars, net_vars>>

\* The request method goes on: _recv_pdu gets the response, or the end of the
\* stream when the worker has closed the socket, and the method returns.  When
\* it closes the socket the worker's recv returns null and its thread ends.
Return ==
    /\ pc = "wait"
    /\ recv_complete(s2c) \/ worker = "closed"
    /\ \E e \in {request_end(cl, cur, s2c, "eof")} :
           /\ cl' = e.cl
           /\ res' = e.value
           /\ rx_pdu' = e.rx_pdu
           /\ s2c' = IF e.cl.sock = "closed" THEN <<>> ELSE SliceFrom(s2c, e.used)
           /\ worker' = IF e.cl.sock = "closed" /\ worker = "serving" THEN "closed"
                        ELSE worker
           /\ c2s' = IF e.cl.sock = "closed" THEN <<>> ELSE c2s
    /\ pc' = "done"
    /\ UNCHANGED <<bank, device_id, last, cur, prev, ncalls, db_vars, net_vars>>

\* The caller goes on after the call: the next call follows this one.
Proceed ==
    /\ pc = "done"
    /\ pc' = "idle"
    /\ prev' = IF cur.m \in WriteMethods /\ res.kind = "True" THEN cur ELSE NoCall
    /\ cur' = NoCall
    /\ res' = NoValue
    /\ rx_pdu' = <<>>
    /\ last' = NoTurn
    /\ UNCHANGED <<bank, device_id, worker, wire_vars, cl, ncalls, db_vars, net_vars>>

Next ==
    \/ Open(TRUE)
    \/ Close
    \/ \E c \in Calls, transaction_id \in TidSet : Call(c, transaction_id, TRUE, "ok")
    \/ WorkerTurn
    \/ Return
    \/ Proceed

Spec == Init /\ [][Next]_vars

\* the same client and server, the client sending raw PDUs
NextRaw ==
    \/ Open(TRUE)
    \/ Close
    \/ \E c \in RawCalls, transaction_id \in TidSet : Call(c, transaction_id, TRUE, "ok")
    \/ WorkerTurn
    \/ Return
    \/ Proceed

SpecRaw == Init /\ [][NextRaw]_vars

\* the bytes of its response the client may have got when its recv() times
\* out: none, a part of the header, the header
LatePrefixes == {0, 3, 7}

\* The client's timeout ends before the whole response has come: the worker
\* has not answered yet, or n bytes of the response only have reached the
\* client.  _recv closes the socket and the method returns its failure value.
\* The worker of the closed connection still finds the request in its socket
\* when it has not handled it yet: it handles it, and its response goes to a
\* socket nobody reads; it is taken here to do so before the next call.
ReturnLate(n) ==
    /\ pc = "wait"
    /\ worker = "serving"
    /\ n <= Len(s2c)
    /\ ~recv_complete(Slice(s2c, 0, n))
    /\ \E e \in {request_end(cl, cur, Slice(s2c, 0, n), "timeout")} :
           /\ cl' = e.cl
           /\ res' = e.value
           /\ rx_pdu' = e.rx_pdu
           /\ s2c' = IF e.cl.sock = "closed" THEN <<>> ELSE SliceFrom(s2c, e.used)
           /\ worker' = IF e.cl.sock = "closed" THEN "closed" ELSE worker
           /\ c2s' = IF e.cl.sock = "closed" THEN <<>> ELSE c2s
           /\ IF e.cl.sock = "closed" /\ service_ready(c2s)
              THEN \E t \in {service_turn([bank |-> bank, device_id |-> device_id], c2s)} :
                      /\ bank' = t.bank
                      /\ last' = [request |-> t.request, response |-> t.tx, closed |-> TRUE,
                                  bank_changed |-> t.bank # bank, notes |-> t.notes]
              ELSE UNCHANGED <<bank, last>>
    /\ pc' = "done"
    /\ UNCHANGED <<device_id, cur, prev, ncalls, db_vars, net_vars>>

\* the same client and server, the client's timeout ending at any time
NextLate ==
    \/ Open(TRUE)
    \/ Close
    \/ \E c \in Calls, transaction_id \in TidSet : Call(c, transaction_id, TRUE, "ok")
    \/ WorkerTurn
    \/ Return
    \/ \E n \in LatePrefixes : ReturnLate(n)
    \/ Proceed

SpecLate == Init /\ [][NextLate]_vars

\* ------------------------------------------------------------ client and any peer
WriteReadCall(write_addr, write_values, read_addr, read_nb) ==
    NewCall("write_read_multiple_registers", write_addr, read_nb, write_values, read_addr,
            0, 0, <<>>)
DeviceIdCall(read_code, object_id) ==
    NewCall("read_device_identification", 0, 0, <<>>, 0, read_code, object_id, <<>>)

\* one call of each method with arguments in range
ValidCalls ==
    {TypedCall("read_coils", 0, 3, <<>>),
     TypedCall("read_discrete_inputs", 65535, 1, <<>>),
     TypedCall("read_holding_registers", 10, 2, <<>>),
     TypedCall("read_input_registers", 0, 1, <<>>),
     TypedCall("write_single_coil", 5, 0, <<TRUE>>),
     TypedCall("write_single_register", 5, 0, <<4660>>),
     TypedCall("write_multiple_coils", 7, 0, BitPattern(9, 0)),
     TypedCall("write_multiple_registers", 10, 0, <<1, 2>>),
     WriteReadCall(10, <<513, 0>>, 10, 2),
     DeviceIdCall(1, 0),
     CustomCall(<<3, 0, 0, 0, 1>>),
     CustomCall(<<>>)}

\* calls of the typed methods with one argument out of range
InvalidCalls ==
    {TypedCall(m, r[1], r[2], <<>>) :
        m \in BitReadMethods,
        r \in {<<-1, 1>>, <<65536, 1>>, <<0, 0>>, <<0, 2001>>, <<65535, 2>>}}
    \cup {TypedCall(m, r[1], r[2], <<>>) :
            m \in ReadMethods \ BitReadMethods,
            r \in {<<-1, 1>>, <<65536, 1>>, <<0, 0>>, <<0, 126>>, <<65535, 2>>}}
    \cup {DeviceIdCall(0, 0), DeviceIdCall(5, 0), DeviceIdCall(1, 256), DeviceIdCall(1, -1)}
    \cup {TypedCall("write_single_coil", a, 0, <<TRUE>>) : a \in {-1, 65536}}
    \cup {TypedCall("write_single_register", 65536, 0, <<0>>),
          TypedCall("write_single_register", -1, 0, <<0>>),
          TypedCall("write_single_register", 0, 0, <<65536>>),
          TypedCall("write_single_register", 0, 0, <<-1>>)}
    \cup {TypedCall("write_multiple_coils", -1, 0, <<TRUE>>),
          TypedCall("write_multiple_coils", 0, 0, <<>>),
          TypedCall("write_multiple_coils", 0, 0, BitPattern(1969, 0)),
          TypedCall("write_multiple_coils", 65535, 0, <<TRUE, TRUE>>)}
    \cup {TypedCall("write_multiple_registers", 65536, 0, <<1>>),
          TypedCall("write_multiple_registers", 0, 0, <<>>),
          TypedCall("write_multiple_registers", 0, 0, WordPattern(124, 0)),
          TypedCall("write_multiple_registers", 65520, 0, WordPattern(17, 0)),
          TypedCall("write_multiple_registers", 0, 0, <<65536>>),
          TypedCall("write_multiple_registers", 0, 0, <<1, -1>>)}
    \cup {WriteReadCall(-1, <<1>>, 0, 1), WriteReadCall(0, <<>>, 0, 1),
          WriteReadCall(0, WordPattern(122, 0), 0, 1), WriteReadCall(65535, <<1, 2>>, 0, 1),
          WriteReadCall(0, <<1>>, 65536, 1), WriteReadCall(0, <<1>>, 0, 0),
          WriteReadCall(0, <<1>>, 0, 126), WriteReadCall(0, <<1>>, 65535, 2),
          WriteReadCall(0, <<65536>>, 0, 1), WriteReadCall(0, <<1, -1>>, 0, 1)}

ClientCalls == ValidCalls \cup InvalidCalls

\* the value field an acknowledgement of the call has
AckValue(c) ==
    CASE c.m = "write_single_coil" -> bit_value_raw(c.vals[1])
      [] c.m = "write_single_register" -> c.vals[1]
      [] OTHER -> Len(c.vals)

\* PDUs a peer may answer the call with: exceptions, PDUs too short, read
\* responses with right and wrong byte counts, acknowledgements with right and
\* wrong fields, device identification responses with objects that fit or not
PeerPdus(c) ==
    LET f == IF c.m = "custom_request" THEN READ_HOLDING_REGISTERS ELSE func_of(c.m)
    IN  {<<>>, <<f>>, <<f + 128>>, <<f + 128, 1>>, <<f + 128, 2>>, <<255, 255>>,
         <<f, 0>>, <<f, 1, 5>>, <<f, 2, 5>>, <<f, 2, 18, 52>>, <<f, 4, 0, 1, 0, 2>>,
         <<f>> \o PackH(c.addr) \o PackH(AckValue(c)),
         <<f>> \o PackH(c.addr) \o PackH(7),
         <<f>> \o PackH(c.addr + 1) \o PackH(AckValue(c)),
         <<f, 14, 1, 131, 0, 0, 1, 0, 2, 80, 121>>,
         <<f, 14, 1, 131, 0, 0, 2, 0, 2, 80, 121>>,
         <<f, 14, 1, 131, 0, 0, 1, 0, 5, 80>>}

\* The bytes a peer may send before the client's recv ends: frames with the
\* MBAP the client expects, frames with one field of the MBAP wrong, a part
\* of a header, a frame shorter than its length field says, and nothing.
PeerBytes(client, c) ==
    LET hdr(t, p, l, u) == PackH(t) \o PackH(p) \o PackH(l) \o <<u>>
        tid == client.transaction_id
        uid == client.unit_id
        f == IF c.m = "custom_request" THEN READ_HOLDING_REGISTERS ELSE func_of(c.m)
    IN  {hdr(tid, 0, Len(pdu) + 1, uid) \o pdu : pdu \in PeerPdus(c)}
        \cup {<<>>, <<0, 1, 0>>,
              hdr((tid + 1) % 65536, 0, 3, uid) \o <<f, 0>>,
              hdr(tid, 1, 3, uid) \o <<f, 0>>,
              hdr(tid, 0, 3, (uid + 1) % 256) \o <<f, 0>>,
              hdr(tid, 0, 256, uid) \o <<f, 0>>,
              hdr(tid, 0, 0, uid),
              hdr(tid, 0, 6, uid) \o <<f, 0>>}

\* The request method goes on with what the peer sent: recv_how tells how the
\* recv() ends that finds less bytes than it asks for.
PeerReturn(rx, recv_how) ==
    /\ pc = "wait"
    /\ \E e \in {request_end(cl, cur, rx, recv_how)} :
           /\ cl' = e.cl
           /\ res' = e.value
           /\ rx_pdu' = e.rx_pdu
           /\ worker' = IF e.cl.sock = "closed" THEN "closed" ELSE worker
    /\ pc' = "done"
    /\ c2s' = <<>>
    /\ s2c' = <<>>
    /\ last' = [NoTurn EXCEPT !.response = rx]
    /\ UNCHANGED <<bank, device_id, cur, prev, ncalls, db_vars, net_vars>>

NextClient ==
    \/ \E connect_ok \in BOOLEAN : Open(connect_ok)
    \/ Close
    \/ \E c \in ClientCalls, transaction_id \in TidSet, connect_ok \in BOOLEAN,
          send_how \in {"ok", "timeout", "error"} :
          Call(c, transaction_id, connect_ok, send_how)
    \/ \E c \in ClientCalls : CallUnresolved(c)
    \/ \E rx \in PeerBytes(cl, cur), recv_how \in {"eof", "timeout"} : PeerReturn(rx, recv_how)
    \/ Proceed

SpecClient == Init /\ [][NextClient]_vars

\* ------------------------------------------------------------ the store of objects
\* A key or a value given to the store: type is the name of its Python type,
\* v the number of an int or the bytes of a bytes (for another type, nothing
\* of the value is looked at).
\* What an access does: raised is "none" or the name of the exception.
\* __setitem__ without the test of the value's type
setitem_any_value(objs, key, value) ==
    IF key.type # "int" THEN [raised |-> "TypeError", objs |-> objs]
    ELSE IF 255 >= key.v /\ key.v >= 0
         THEN [raised |-> "none", objs |-> (key.v :> value.v) @@ objs]
         ELSE [raised |-> "ValueError", objs |-> objs]

\* DeviceIdentification.__setitem__
setitem(objs, key, value) ==
    IF key.type # "int" THEN [raised |-> "TypeError", objs |-> objs]
    ELSE IF 255 >= key.v /\ key.v >= 0
         THEN IF value.type # "bytes" THEN [raised |-> "TypeError", objs |-> objs]
              ELSE [raised |-> "none", objs |-> (key.v :> value.v) @@ objs]
         ELSE [raised |-> "ValueError", objs |-> objs]

\* DeviceIdentification.__getitem__
getitem(objs, key) ==
    IF key.type # "int" THEN [raised |-> "TypeError", value |-> <<>>]
    ELSE IF key.v \in DOMAIN objs THEN [raised |-> "none", value |-> objs[key.v]]
    ELSE [raised |-> "KeyError", value |-> <<>>]

\* the names of the properties, in the order of their definitions
PropertyNames ==
    <<"vendor_name", "product_code", "major_minor_revision", "vendor_url",
      "product_name", "model_name", "user_application_name">>

\* properties that all stand for the object 0
property_key_zero(name) == [type |-> "int", v |-> 0]

\* the key that the property of a name gives to self[...]
property_key(name) ==
    [type |-> "int",
     v |-> CASE name = "vendor_name" -> 0
             [] name = "product_code" -> 1
             [] name = "major_minor_revision" -> 2
             [] name = "vendor_url" -> 3
             [] name = "product_name" -> 4
             [] name = "model_name" -> 5
             [] name = "user_application_name" -> 6]

StoreKeys ==
    {[type |-> "int", v |-> n] : n \in {-1, 0, 6, 128, 255, 256}}
    \cup {[type |-> "str", v |-> 0]}

StoreValues ==
    {[type |-> "bytes", v |-> b] : b \in {<<102, 101>>}}
    \cup {[type |-> "int", v |-> <<>>]}

\* an access to the store; res keeps what it raised or returned
StoreSet(done) ==
    /\ device_id' = [device_id EXCEPT !.objs = done.objs]
    /\ res' = [kind |-> done.raised, data |-> <<>>]
    /\ UNCHANGED <<bank, worker, last, wire_vars, cl, pc, cur, rx_pdu, prev, ncalls,
                   db_vars, net_vars>>

StoreGet(done) ==
    /\ res' = [kind |-> done.raised, data |-> done.value]
    /\ UNCHANGED <<srv_vars, wire_vars, cl, pc, cur, rx_pdu, prev, ncalls, db_vars, net_vars>>

\* device_id[key] = value
SetItem(key, value) == StoreSet(setitem(device_id.objs, key, value))

\* device_id[key]
GetItem(key) == StoreGet(getitem(device_id.objs, key))

\* device_id.<name> = value
SetProperty(name, value) == StoreSet(setitem(device_id.objs, property_key(name), value))

\* device_id.<name>
GetProperty(name) == StoreGet(getitem(device_id.objs, property_key(name)))

NextStore ==
    \/ \E key \in StoreKeys, value \in StoreValues : SetItem(key, value)
    \/ \E key \in StoreKeys : GetItem(key)
    \/ \E k \in 1..7, value \in StoreValues : SetProperty(PropertyNames[k], value)
    \/ \E k \in 1..7 : GetProperty(PropertyNames[k])

\* a server with its store, and no client at work
InitStore == Init /\ cl = NewClient(UnitId, TRUE, FALSE)

SpecStore == InitStore /\ [][NextStore]_vars

\* ------------------------------------------------------------ requests of a raw peer
\* A peer sends one request frame after the other on its connection and reads
\* each response; last keeps the frames of the turn.
Bytes(n, b) == List([k \in 1..n |-> b])

\* the PDU of a request 0x17 with nbytes bytes of register values
WriteReadPdu(read_addr, read_qty, write_addr, write_qty, byte_count, nbytes) ==
    <<WRITE_READ_MULTIPLE_REGISTERS>> \o PackH(read_addr) \o PackH(read_qty)
        \o PackH(write_addr) \o PackH(write_qty) \o <<byte_count>> \o Bytes(nbytes, 1)

\* requests 0x17 around the limits of each test of the function
WriteReadPdus ==
    {WriteReadPdu(0, read_qty, 4, write_qty, 2 * write_qty, 2 * write_qty) :
        read_qty \in {0, 1, 123, 124, 125, 126}, write_qty \in {0, 1, 121, 122, 123, 124}}
    \cup {WriteReadPdu(0, 1, 4, write_qty, byte_count, nbytes) :
            write_qty \in {1, 2}, byte_count \in {1, 2, 3, 4}, nbytes \in {1, 2, 3, 4}}
    \cup {WriteReadPdu(read_addr, 2, write_addr, 2, 4, 4) :
            read_addr \in {0, 3, 65534, 65535}, write_addr \in {3, 4, 65534, 65535}}

\* the worker's turn on the request PDU of the peer
Serve(pdu) ==
    /\ \E t \in {service_turn([bank |-> bank, device_id |-> device_id],
                              add_mbap(1, UnitId, pdu))} :
          /\ bank' = t.bank
          /\ last' = [request |-> t.request, response |-> t.tx, closed |-> t.close,
                      bank_changed |-> t.bank # bank, notes |-> t.notes]
    /\ UNCHANGED <<device_id, worker, wire_vars, cl_vars, db_vars, net_vars>>

NextWriteRead == \E pdu \in WriteReadPdus : Serve(pdu)

\* the worker's turn on a request PDU, the server having the data handler hdl
\* of the application (what hdl returns is that of this request's client)
ServeWith(hdl, pdu) ==
    /\ \E t \in {service_turn([bank |-> bank, device_id |-> device_id, data_hdl |-> hdl],
                              add_mbap(1, UnitId, pdu))} :
          /\ bank' = t.bank
          /\ last' = [request |-> t.request, response |-> t.tx, closed |-> t.close,
                      bank_changed |-> t.bank # bank, notes |-> t.notes, data_hdl |-> hdl]
    /\ UNCHANGED <<device_id, worker, wire_vars, cl_vars, db_vars, net_vars>>

\* what the handler of the application returns for the client of a request
DataHandlers == {[read_exp |-> r, write_exp |-> w] : r \in {0, 1, 4}, w \in {0, 1, 6}}

\* requests of every data-access function, within and past the spaces, and
\* with a quantity that the server refuses
HandlerPdus ==
    {<<fc>> \o PackH(address) \o PackH(quantity) :
        fc \in {READ_COILS, READ_DISCRETE_INPUTS, READ_HOLDING_REGISTERS, READ_INPUT_REGISTERS},
        address \in {0, 65535}, quantity \in {0, 1, 2}}
    \cup {<<WRITE_SINGLE_COIL>> \o PackH(0) \o PackH(v) : v \in {0, 65280, 1}}
    \cup {<<WRITE_SINGLE_REGISTER>> \o PackH(a) \o PackH(257) : a \in {0, 65535}}
    \cup {<<WRITE_MULTIPLE_COILS>> \o PackH(a) \o PackH(q) \o <<1, 1>> :
            a \in {0, 65535}, q \in {0, 2}}
    \cup {<<WRITE_MULTIPLE_REGISTERS>> \o PackH(a) \o PackH(q) \o <<4, 1, 1, 1, 1>> :
            a \in {0, 65535}, q \in {0, 2}}
    \cup {WriteReadPdu(read_addr, read_qty, write_addr, 2, 4, 4) :
            read_addr \in {0, 1, 65535}, read_qty \in {0, 2}, write_addr \in {0, 65535}}

NextHandler ==
    \/ \E hdl \in DataHandlers, pdu \in HandlerPdus : ServeWith(hdl, pdu)
    \/ \E pdu \in HandlerPdus : Serve(pdu)

SpecHandler == InitStore /\ [][NextHandler]_vars

\* the worker's turn on a request frame, the server having an external engine
\* that does ext_engine with this request
ServeExt(ext_engine, transaction_id, unit_id, pdu) ==
    /\ \E t \in {service_turn([bank |-> bank, device_id |-> device_id,
                               ext_engine |-> ext_engine],
                              add_mbap(transaction_id, unit_id, pdu))} :
          /\ bank' = t.bank
          /\ last' = [request |-> t.request, response |-> t.tx, closed |-> t.close,
                      bank_changed |-> t.bank # bank, notes |-> t.notes,
                      ext_engine |-> ext_engine]
    /\ UNCHANGED <<device_id, worker, wire_vars, cl_vars, db_vars, net_vars>>

\* what an external engine may do with a request
ExtEngines ==
    {[raises |-> TRUE, pdu |-> <<>>]}
    \cup {[raises |-> FALSE, pdu |-> pdu] :
            pdu \in {<<>>, <<3, 2, 0, 7>>, <<131, 4>>, Bytes(300, 9)}}

\* requests that the internal engine would serve, and one that it would refuse
ExtPdus == HandlerPdus \cup {<<99, 0>>}

NextExt ==
    \E ext_engine \in ExtEngines, transaction_id \in {1, 65535}, unit_id \in {1, 255},
       pdu \in ExtPdus : ServeExt(ext_engine, transaction_id, unit_id, pdu)

SpecExt == InitStore /\ [][NextExt]_vars

SpecWriteRead == InitStore /\ [][NextWriteRead]_vars

\* ------------------------------------------------------------ RTU gateway
\* examples/server_gateway.py: a ModbusServer whose ext_engine is
\* ModbusSerialWorker.srv_engine_entry.  The workers of the TCP connections
\* put their queries in rtu_queries_q and wait; the serial worker thread
\* takes them one by one and exchanges them with the serial line.
\*
\* A ModbusRTUFrame is [head, last2, crc_zero]: head is the bytes of raw
\* before its last two bytes (all of them when it has less than two), last2
\* tells that the last two bytes are there, and crc_zero that crc16(raw) == 0,
\* which the CRC of a frame that was not damaged gives.
RtuFrame(head, last2, crc_zero) == [head |-> head, last2 |-> last2, crc_zero |-> crc_zero]

\* len(self.raw)
rtu_len(frame) == Len(frame.head) + (IF frame.last2 THEN 2 ELSE 0)

\* ModbusRTUFrame.pdu: self.raw[1:-2]
rtu_pdu(frame) ==
    IF frame.last2 THEN SliceFrom(frame.head, 1) ELSE <<>>

\* ModbusRTUFrame.function_code: self.raw[1]
rtu_function_code(frame) == frame.head[2]

\* ModbusRTUFrame.is_valid
rtu_is_valid(frame) == rtu_len(frame) > 4 /\ frame.crc_zero

\* ModbusRTUFrame.build: [address] + PDU + [CRC 16]
rtu_build(raw_pdu, slave_ad) == RtuFrame(<<slave_ad>> \o raw_pdu, TRUE, TRUE)

\* Queue(maxsize=5)
QueueMaxsize == 5

\* the number of queries followed in a behaviour
MaxQueries == 6

\* Queue.get: the place in the queue of the item taken, the oldest one
queue_get(q) == 1

\* Queue.put(item, block=False) raises queue.Full
queue_full(q) == Len(q) >= QueueMaxsize

\* What read() gives in the exchange of a query.  Unit 1 answers with the
\* function code and the number of the query, unit 2 is not there and nothing
\* comes before the timeout, the answers of the other units come with a wrong
\* CRC.
SerialRead(query) ==
    LET fc == rtu_function_code(query.request)
        unit == query.request.head[1]
    IN  CASE unit = 1 -> RtuFrame(<<unit, fc % 128, query.id>>, TRUE, TRUE)
          [] unit = 2 -> RtuFrame(<<>>, FALSE, FALSE)
          [] OTHER -> RtuFrame(<<unit, fc % 128, query.id>>, TRUE, FALSE)

\* the requests of the TCP clients: <<unit id, PDU>>
GwRequests == {<<1, <<3, 0, 0, 0, 1>>>>, <<2, <<3, 0, 0, 0, 1>>>>, <<3, <<128, 0>>>>}

\* srv_engine_entry up to completed.wait(): the query is built and put in the
\* queue, or put raises queue.Full and the method ends with build_except.
\* out is the end of the method for the server: Raised or Replied.
GwEntry(unit_id, pdu) ==
    /\ gw.made < MaxQueries
    /\ \E query \in {[id |-> gw.made + 1, request |-> rtu_build(pdu, unit_id),
                       response |-> RtuFrame(<<>>, FALSE, FALSE), completed |-> FALSE]} :
          IF queue_full(gw.q)
          THEN gw' = [gw EXCEPT
                        !.made = @ + 1,
                        !.out = [id |-> query.id, request |-> query.request,
                                 put |-> FALSE, len |-> Len(gw.q),
                                 result |-> build_except(rtu_function_code(query.request),
                                                         EXP_GATEWAY_PATH_UNAVAILABLE, bank)]]
          ELSE gw' = [gw EXCEPT !.made = @ + 1,
                                !.q = Append(@, query.id),
                                !.wait = @ \cup {query}]
    /\ UNCHANGED <<srv_vars, wire_vars, cl_vars, db_vars, running, service, conns, mei,
                   delivered>>

\* run: rtu_query = self.rtu_queries_q.get()
SerialGet ==
    /\ gw.serial.pc = "get"
    /\ gw.q # <<>>
    /\ gw' = [gw EXCEPT
                !.serial = [pc |-> "exchange", cur |-> gw.q[queue_get(gw.q)]],
                !.q = [i \in 1..(Len(gw.q) - 1) |->
                         IF i < queue_get(gw.q) THEN gw.q[i] ELSE gw.q[i + 1]]]
    /\ UNCHANGED <<srv_vars, wire_vars, cl_vars, db_vars, running, service, conns, mei,
                   delivered>>

\* run: the query is written to the serial line and the answer is read, then
\* completed is set.  When a method of the serial port raises (the port is
\* gone), the exception ends run and the thread.
SerialExchange(raises) ==
    /\ gw.serial.pc = "exchange"
    /\ IF raises
       THEN gw' = [gw EXCEPT !.serial.pc = "dead"]
       ELSE gw' = [gw EXCEPT
                     !.serial = [pc |-> "get", cur |-> 0],
                     !.wait = {IF w.id = gw.serial.cur
                               THEN [w EXCEPT !.response = SerialRead(w), !.completed = TRUE]
                               ELSE w : w \in gw.wait}]
    /\ UNCHANGED <<srv_vars, wire_vars, cl_vars, db_vars, running, service, conns, mei,
                   delivered>>

\* srv_engine_entry after completed.wait(): the PDU of a valid response is
\* given to the server, build_except is called otherwise
GwResume(id) ==
    /\ \E w \in gw.wait :
          /\ w.id = id
          /\ w.completed
          /\ gw' = [gw EXCEPT
                      !.wait = @ \ {w},
                      !.out = [id |-> id, request |-> w.request, put |-> TRUE,
                               len |-> Len(gw.q),
                               result |->
                                   IF rtu_is_valid(w.response)
                                   THEN Replied(rtu_pdu(w.response), bank, <<>>)
                                   ELSE build_except(rtu_function_code(w.request),
                                                     EXP_GATEWAY_TARGET_DEVICE_FAILED_TO_RESPOND,
                                                     bank)]]
    /\ UNCHANGED <<srv_vars, wire_vars, cl_vars, db_vars, running, service, conns, mei,
                   delivered>>

NextGateway ==
    \/ \E r \in GwRequests : GwEntry(r[1], r[2])
    \/ SerialGet
    \/ \E raises \in BOOLEAN : SerialExchange(raises)
    \/ \E id \in 1..MaxQueries : GwResume(id)

SpecGateway == InitStore /\ [][NextGateway]_vars

\* the same gateway with requests for a unit that answers and for one that
\* does not
NextGatewayLive ==
    \/ \E r \in {q \in GwRequests : q[2][1] < 128} : GwEntry(r[1], r[2])
    \/ SerialGet
    \/ \E raises \in BOOLEAN : SerialExchange(raises)
    \/ \E id \in 1..MaxQueries : GwResume(id)

\* The threads are scheduled: the serial worker goes on when its queue is not
\* empty, and read() ends with the timeout at the latest; a worker goes on
\* when the event it waits for is set.
SpecGatewayLive ==
    /\ InitStore /\ [][NextGatewayLive]_vars
    /\ WF_vars(SerialGet)
    /\ WF_vars(\E raises \in BOOLEAN : SerialExchange(raises))
    /\ \A id \in 1..MaxQueries : WF_vars(GwResume(id))

\* ------------------------------------------------------------ read requests
\* DataBank(coils_size, d_inputs_size, h_regs_size, i_regs_size) after the
\* application has set the first elements of each space
ReadBank(coils_size, d_inputs_size, h_regs_size, i_regs_size) ==
    LET b == DataBankInit(coils_size, d_inputs_size, h_regs_size, i_regs_size)
        first(sp, pattern) == WriteAll(sp, 0, SubSeq(pattern, 1, Min(sp.size, Len(pattern))))
    IN  [coils    |-> first(b.coils, <<TRUE, FALSE, TRUE, TRUE, FALSE, FALSE, FALSE, FALSE,
                                      TRUE, TRUE>>),
         d_inputs |-> first(b.d_inputs, <<FALSE, TRUE, TRUE, FALSE, FALSE, FALSE, FALSE, TRUE,
                                         FALSE, TRUE>>),
         h_regs   |-> first(b.h_regs, <<4660, 65535, 1>>),
         i_regs   |-> first(b.i_regs, <<1, 256, 43981>>)]

ReadBanks ==
    {ReadBank(DEFAULT_SIZE, DEFAULT_SIZE, DEFAULT_SIZE, DEFAULT_SIZE),
     ReadBank(20, 10, 5, 3), ReadBank(10, 20, 3, 5)}

\* the PDUs of read requests, around the limits of the quantities and of the
\* spaces
ReadPdus ==
    {<<fc>> \o PackH(address) \o PackH(quantity) :
        fc \in {READ_COILS, READ_DISCRETE_INPUTS, READ_HOLDING_REGISTERS, READ_INPUT_REGISTERS},
        address \in {0, 1, 3, 8, 65535},
        quantity \in {0, 1, 2, 3, 9, 10, 17, 125, 126, 2000, 2001}}

InitRead ==
    /\ bank \in ReadBanks
    /\ device_id = DeviceId0
    /\ worker = "none"
    /\ c2s = <<>>
    /\ s2c = <<>>
    /\ cl = NewClient(UnitId, FALSE, FALSE)
    /\ pc = "idle"
    /\ cur = NoCall
    /\ res = NoValue
    /\ rx_pdu = <<>>
    /\ prev = NoCall
    /\ ncalls = 0
    /\ last = NoTurn
    /\ th = NoThread(bank)
    /\ held = {}
    /\ callers = [c \in Callers |-> NoCaller]
    /\ committed = bank
    /\ running = TRUE
    /\ service = "listening"
    /\ conns = [k \in Conns |-> NoConn]
    /\ mei = NoMei
    /\ gw = NoGateway
    /\ delivered = [coils |-> <<>>, h_regs |-> <<>>]

NextRead == \E pdu \in ReadPdus : Serve(pdu)

SpecRead == InitRead /\ [][NextRead]_vars

\* ------------------------------------------------------------ wire and local calls
\* the local calls that set the discrete inputs and the input registers
LocalBits == {<<FALSE, TRUE>>}
LocalWords == {<<0, 65535>>}

\* server.data_bank.set_discrete_inputs(0, bit_list) by the application
LocalSetDiscreteInputs(bit_list) ==
    /\ bank' = [bank EXCEPT !.d_inputs = set_discrete_inputs(bank, 0, bit_list).space]
    /\ UNCHANGED <<device_id, worker, last, wire_vars, cl_vars, db_vars, net_vars>>

\* server.data_bank.set_input_registers(0, word_list) by the application
LocalSetInputRegisters(word_list) ==
    /\ bank' = [bank EXCEPT !.i_regs = set_input_registers(bank, 0, word_list).space]
    /\ UNCHANGED <<device_id, worker, last, wire_vars, cl_vars, db_vars, net_vars>>

\* client and server as in Spec, the application setting the two input spaces
NextWire ==
    \/ Open(TRUE)
    \/ Close
    \/ \E c \in Calls : Call(c, 1, TRUE, "ok")
    \/ WorkerTurn
    \/ Return
    \/ Proceed
    \/ \E bit_list \in LocalBits : LocalSetDiscreteInputs(bit_list)
    \/ \E word_list \in LocalWords : LocalSetInputRegisters(word_list)

SpecWire == Init /\ [][NextWire]_vars

\* ------------------------------------------------------------ client, host and port
\* the values given to the setter of host: 'localhost', 'plc-1', '::1',
\* 'a@b', '::g:1', '-a', '' and a value that is no str
HostValues ==
    {[type |-> "str", v |-> h] :
        h \in {DefaultHost, <<112, 108, 99, 45, 49>>, <<58, 58, 49>>, <<97, 64, 98>>,
               <<58, 58, 103, 58, 49>>, <<45, 97>>, <<>>}}
    \cup {[type |-> "int", v |-> <<>>]}

\* the values given to the setter of port, and a value that is no int
PortValues ==
    {[type |-> "int", v |-> n] : n \in {DefaultPort, 65535, 0, 65536}}
    \cup {[type |-> "str", v |-> 0]}

\* client.host = value, client.port = value: a socket that the setter closes
\* ends the worker of its connection; res keeps the exception raised
Set(done) ==
    /\ pc = "idle"
    /\ cl' = done.cl
    /\ res' = [kind |-> done.raised, data |-> <<>>]
    /\ worker' = IF done.cl.sock = "closed" /\ worker = "serving" THEN "closed" ELSE worker
    /\ c2s' = IF done.cl.sock = "closed" THEN <<>> ELSE c2s
    /\ s2c' = IF done.cl.sock = "closed" THEN <<>> ELSE s2c
    /\ UNCHANGED <<bank, device_id, last, pc, cur, rx_pdu, prev, ncalls, db_vars, net_vars>>

SetHost(value) == Set(host_set(cl, value))

SetPort(value) == Set(port_set(cl, value))

\* the requests of the client whose host and port are set
EndpointCalls == {TypedCall("read_coils", 0, 1, <<>>)}

NextEndpoint ==
    \/ \E connect_ok \in BOOLEAN : Open(connect_ok)
    \/ Close
    \/ \E value \in HostValues : SetHost(value)
    \/ \E value \in PortValues : SetPort(value)
    \/ \E c \in EndpointCalls, connect_ok \in BOOLEAN :
          Call(c, 1, connect_ok, "ok")
    \/ \E rx \in PeerBytes(cl, cur) : PeerReturn(rx, "eof")
    \/ Proceed

SpecEndpoint == Init /\ [][NextEndpoint]_vars

\* ------------------------------------------------------------ DataBank alone
\* A thread of the application calls the set_ methods of a DataBank built with
\* small sizes. A call takes the lock of its space, runs the body of the with
\* block, leaves the block, and then makes the notifications of its
\* changes_list one by one.
BankSizes == {1, 2}
BankAddresses == -1 .. 2
BankBits == {<<>>, <<TRUE>>, <<TRUE, FALSE>>, <<FALSE, TRUE>>}
BankWords == {<<>>, <<7>>, <<65543, 0>>, <<0, 7>>}

\* the list a set_ method works on: bit_list, or word_list once masked
bank_list(op, list) ==
    IF op \in {"set_holding_registers", "set_input_registers"} THEN MaskWords(list) ELSE list

\* the space a set_ method writes, which is also the name of its lock
bank_space(op) ==
    CASE op = "set_coils" -> "coils"
      [] op = "set_discrete_inputs" -> "d_inputs"
      [] op = "set_holding_registers" -> "h_regs"
      [] op = "set_input_registers" -> "i_regs"

\* the body of the with block of a set_ method
bank_set(b, op, address, list) ==
    CASE op = "set_coils" ->
            LET r == set_coils(b, address, list)
            IN  [ret |-> r.ret, bank |-> [b EXCEPT !.coils = r.space], changes |-> r.changes]
      [] op = "set_holding_registers" ->
            LET r == set_holding_registers(b, address, list)
            IN  [ret |-> r.ret, bank |-> [b EXCEPT !.h_regs = r.space], changes |-> r.changes]
      [] op = "set_input_registers" ->
            LET r == set_input_registers(b, address, list)
            IN  [ret |-> r.ret, bank |-> [b EXCEPT !.i_regs = r.space], changes |-> <<>>]
      [] op = "set_discrete_inputs" ->
            LET r == set_discrete_inputs(b, address, list)
            IN  [ret |-> r.ret, bank |-> [b EXCEPT !.d_inputs = r.space], changes |-> <<>>]

InitBank ==
    /\ \E cs \in BankSizes, ds \in BankSizes, hs \in BankSizes, is \in BankSizes :
          bank = DataBankInit(cs, ds, hs, is)
    /\ device_id = DeviceId0
    /\ worker = "none"
    /\ c2s = <<>>
    /\ s2c = <<>>
    /\ cl = NewClient(UnitId, FALSE, FALSE)
    /\ pc = "idle"
    /\ cur = NoCall
    /\ res = NoValue
    /\ rx_pdu = <<>>
    /\ prev = NoCall
    /\ ncalls = 0
    /\ last = NoTurn
    /\ th = NoThread(bank)
    /\ held = {}
    /\ callers = [c \in Callers |-> NoCaller]
    /\ committed = bank
    /\ running = TRUE
    /\ service = "listening"
    /\ conns = [k \in Conns |-> NoConn]
    /\ mei = NoMei
    /\ gw = NoGateway
    /\ delivered = [coils |-> <<>>, h_regs |-> <<>>]

\* a set_ method is entered and its with statement takes the lock
BankEnter(op, address, list, srv_info, repeat) ==
    /\ ncalls < MaxCalls
    /\ bank_space(op) \notin held
    /\ held' = held \cup {bank_space(op)}
    /\ th' = [pc |-> "locked", op |-> op, address |-> address, list |-> list,
              srv_info |-> srv_info, ret |-> "none", pending |-> <<>>, log |-> <<>>,
              before |-> bank, repeat |-> repeat]
    /\ ncalls' = ncalls + 1
    /\ UNCHANGED <<srv_vars, wire_vars, cl, pc, cur, res, rx_pdu, prev>>
    /\ UNCHANGED <<net_vars, par_vars>>

\* set_coils / set_holding_registers, called by the application or with the
\* srv_info of a server request
BankCallNotifying(op, address, list, srv_info) ==
    /\ th.pc = "idle"
    /\ BankEnter(op, address, list, srv_info, FALSE)

\* set_discrete_inputs / set_input_registers, which take no srv_info
BankCallSilent(op, address, list) ==
    /\ th.pc = "idle"
    /\ BankEnter(op, address, list, FALSE, FALSE)

\* the call that has just returned is made again with the same arguments
BankRepeat ==
    /\ th.pc = "done"
    /\ BankEnter(th.op, th.address, th.list, th.srv_info, TRUE)

\* the with block: bounds test, write loop, and the lock is released on the
\* way out, be it by return None, by an exception or by falling through
Critical ==
    /\ th.pc = "locked"
    /\ \E r \in {bank_set(bank, th.op, th.address, th.list)} :
          /\ bank' = r.bank
          /\ th' = [th EXCEPT
                      !.ret = r.ret,
                      !.pending = IF r.ret = "True" /\ th.srv_info THEN r.changes ELSE <<>>,
                      !.pc = IF r.ret = "True" /\ th.srv_info /\ r.changes # <<>>
                             THEN "notify" ELSE "done"]
    /\ held' = held \ {bank_space(th.op)}
    /\ UNCHANGED <<device_id, worker, last, wire_vars, cl_vars>>
    /\ UNCHANGED <<net_vars, par_vars>>

\* one turn of the loop over changes_list: on_coils_change or
\* on_holding_registers_change is called with (address, from_value, to_value)
Notify ==
    /\ th.pc = "notify"
    /\ th' = [th EXCEPT
                !.log = Append(th.log,
                          [address |-> Head(th.pending).address,
                           from_value |-> Head(th.pending).from_value,
                           to_value |-> Head(th.pending).to_value,
                           lock_held |-> bank_space(th.op) \in held,
                           applied |-> SpaceSlice(bank[bank_space(th.op)], th.address,
                                                  Len(th.list)) = bank_list(th.op, th.list)]),
                !.pending = Tail(th.pending),
                !.pc = IF Len(th.pending) = 1 THEN "done" ELSE "notify"]
    /\ UNCHANGED <<srv_vars, wire_vars, cl_vars, held>>
    /\ UNCHANGED <<net_vars, par_vars>>

\* the caller goes on
BankProceed ==
    /\ th.pc = "done"
    /\ th' = NoThread(bank)
    /\ UNCHANGED <<srv_vars, wire_vars, cl_vars, held>>
    /\ UNCHANGED <<net_vars, par_vars>>

NextBank ==
    \/ \E op \in {"set_coils"}, address \in BankAddresses, list \in BankBits,
          srv_info \in BOOLEAN : BankCallNotifying(op, address, list, srv_info)
    \/ \E op \in {"set_holding_registers"}, address \in BankAddresses, list \in BankWords,
          srv_info \in BOOLEAN : BankCallNotifying(op, address, list, srv_info)
    \/ \E op \in {"set_discrete_inputs"}, address \in BankAddresses, list \in BankBits :
          BankCallSilent(op, address, list)
    \/ \E op \in {"set_input_registers"}, address \in BankAddresses, list \in BankWords :
          BankCallSilent(op, address, list)
    \/ BankRepeat
    \/ Critical
    \/ Notify
    \/ BankProceed

SpecBank == InitBank /\ [][NextBank]_vars

\* ------------------------------------------------------------ concurrent callers
\* Several threads call get_ and set_ methods of the coils and of the holding
\* registers of one DataBank.  A thread is either in a call of the local API
\* or a worker in _write_read_multiple_registers, which calls write_h_regs
\* and then, when it went well, read_h_regs of the default handler, that is
\* set_holding_registers and then get_holding_registers.  A call goes by
\* steps: the with statement takes the lock of the space (pc "call" to
\* "locked"), the body runs (one step for the bounds test or the slice, one
\* step for each assignment of the write loop), and the lock is released on
\* the way out (pc "release").  The on_..._change methods, which do nothing
\* in DataBank, are left out.
GetCall(method, address, number) ==
    [method |-> method, address |-> address, number |-> number, list |-> <<>>]

SetCall(method, address, list) ==
    [method |-> method, address |-> address, number |-> Len(list), list |-> list]

\* the space of a method, which is also the name of its lock
call_space(method) ==
    IF method \in {"get_coils", "set_coils"} THEN "coils" ELSE "h_regs"

call_is_set(method) == method \in {"set_coils", "set_holding_registers"}

\* word_list = [int(w) & 0xffff for w in word_list]
call_list(call) ==
    IF call.method = "set_holding_registers" THEN MaskWords(call.list) ELSE call.list

\* a with statement that enters whoever holds the lock
lock_never_held(locks, space) == TRUE

\* the with statement enters when no thread holds the lock
lock_free(locks, space) == space \notin locks

\* (address >= 0) and (address + number <= len(space))
call_in_bounds(b, call) ==
    call.address >= 0 /\ call.address + call.number <= b[call_space(call.method)].size

\* the DataBank after a whole set_ call
call_applied(b, call) ==
    IF call_is_set(call.method) /\ call_in_bounds(b, call)
    THEN [b EXCEPT ![call_space(call.method)] =
            SpaceStore(@, [x \in call.address..(call.address + call.number - 1) |->
                             call_list(call)[x - call.address + 1]])]
    ELSE b

\* the calls of the local API and the requests 0x17 of the callers
LocalCalls ==
    {SetCall("set_holding_registers", a, l) : a \in {0, 65535}, l \in {<<1, 1>>, <<65538, 2>>}}
    \cup {GetCall("get_holding_registers", a, 2) : a \in {0, 65535}}
    \cup {SetCall("set_coils", 0, <<TRUE, TRUE>>), GetCall("get_coils", 0, 2)}

Programs ==
    {[kind |-> "local", todo |-> <<call>>] : call \in LocalCalls}
    \cup {[kind |-> "0x17",
           todo |-> <<SetCall("set_holding_registers", wa, <<3, 3>>),
                      GetCall("get_holding_registers", ra, 2)>>] :
            wa \in {0, 65535}, ra \in {0, 1}}

\* a thread enters a call of the local API, or a worker enters
\* _write_read_multiple_registers with a request that passed its tests
ParBegin(c, prog) ==
    /\ callers[c].pc = "idle"
    /\ ncalls < MaxCalls
    /\ ncalls' = ncalls + 1
    /\ callers' = [callers EXCEPT ![c] =
                     [pc |-> "call", kind |-> prog.kind, todo |-> prog.todo, i |-> 0,
                      rets |-> <<>>]]
    /\ UNCHANGED <<srv_vars, wire_vars, cl, pc, cur, res, rx_pdu, prev, th, held, committed,
                   net_vars>>

\* with self._coils_lock / with self._h_regs_lock
ParAcquire(c) ==
    /\ callers[c].pc = "call"
    /\ lock_free(held, call_space(Head(callers[c].todo).method))
    /\ held' = held \cup {call_space(Head(callers[c].todo).method)}
    /\ callers' = [callers EXCEPT ![c].pc = "locked", ![c].i = 0]
    /\ UNCHANGED <<srv_vars, wire_vars, cl_vars, th, committed, net_vars>>

\* one step of the body of the with block: the bounds test with the slice or
\* the return of None, or one turn of the write loop
ParBody(c) ==
    /\ callers[c].pc = "locked"
    /\ LET call == Head(callers[c].todo)
           space == call_space(call.method)
           ret(ok, data) ==
               [call |-> call, ok |-> ok, data |-> data,
                serialized |-> SpaceSlice(committed[space], call.address, call.number)]
       IN  IF ~call_in_bounds(bank, call)
           THEN /\ callers' = [callers EXCEPT ![c].pc = "release",
                                              ![c].rets = Append(@, ret(FALSE, <<>>))]
                /\ bank' = bank
           ELSE IF ~call_is_set(call.method)
           THEN /\ callers' = [callers EXCEPT
                                 ![c].pc = "release",
                                 ![c].rets = Append(@, ret(TRUE, SpaceSlice(bank[space], call.address,
                                                                            call.number)))]
                /\ bank' = bank
           ELSE IF callers[c].i < call.number
           THEN /\ bank' = [bank EXCEPT ![space] =
                               SpaceStore(@, [x \in {call.address + callers[c].i} |->
                                                call_list(call)[callers[c].i + 1]])]
                /\ callers' = [callers EXCEPT ![c].i = @ + 1]
           ELSE /\ callers' = [callers EXCEPT ![c].pc = "release",
                                              ![c].rets = Append(@, ret(TRUE, <<>>))]
                /\ bank' = bank
    /\ UNCHANGED <<device_id, worker, last, wire_vars, cl_vars, th, held, committed, net_vars>>

\* the with block is left and the method returns; the function 0x17 goes on
\* with read_h_regs if write_h_regs went well
ParRelease(c) ==
    /\ callers[c].pc = "release"
    /\ LET call == Head(callers[c].todo)
           went_well == callers[c].rets[Len(callers[c].rets)].ok
           todo == IF went_well THEN Tail(callers[c].todo) ELSE <<>>
       IN  /\ held' = held \ {call_space(call.method)}
           /\ committed' = call_applied(committed, call)
           /\ callers' = [callers EXCEPT ![c].todo = todo,
                                         ![c].pc = IF todo = <<>> THEN "done" ELSE "call"]
    /\ UNCHANGED <<srv_vars, wire_vars, cl_vars, th, net_vars>>

\* the thread goes on
ParProceed(c) ==
    /\ callers[c].pc = "done"
    /\ callers' = [callers EXCEPT ![c] = NoCaller]
    /\ UNCHANGED <<srv_vars, wire_vars, cl_vars, th, held, committed, net_vars>>

NextShared ==
    \/ \E c \in Callers, prog \in Programs : ParBegin(c, prog)
    \/ \E c \in Callers : ParAcquire(c)
    \/ \E c \in Callers : ParBody(c)
    \/ \E c \in Callers : ParRelease(c)
    \/ \E c \in Callers : ParProceed(c)

SpecShared == InitStore /\ [][NextShared]_vars

\* ------------------------------------------------------------ change callbacks
\* Threads in set_coils and set_holding_registers with their notifications,
\* the application having given on_coils_change and
\* on_holding_registers_change methods (examples/server_change_log.py) that
\* may call a get_ or set_ method of the space that has changed.  A thread
\* has a stack of calls, todo, the innermost first.  A call goes through the
\* stages "with" (before the with statement), "locked" (in the with block),
\* "release" (at the end of the with block), "notify" (in the loop over
\* changes_list) and "return"; holds tells that it holds the lock.

\* notifications made inside the with block
notify_in_with_block == TRUE

\* the loop over changes_list comes after the with block
notify_in_with == FALSE

CallFrame(call, srv_info) ==
    [call |-> call, srv_info |-> srv_info, stage |-> "with", holds |-> FALSE,
     changes |-> <<>>]

\* the innermost call of thread c
Top(c) == Head(callers[c].todo)

\* thread c with its innermost call replaced
WithTop(c, frame) == [callers EXCEPT ![c].todo = <<frame>> \o Tail(@)]

\* changes_list of a set_ call: (address, value before, value written) of the
\* elements that change, in the order of the addresses
RECURSIVE changes_of(_, _, _)
changes_of(sp, call, offset) ==
    IF offset >= call.number THEN <<>>
    ELSE LET c_address == call.address + offset
             c_value == call_list(call)[offset + 1]
         IN  (IF SpaceGet(sp, c_address) # c_value
              THEN <<[space |-> call_space(call.method), address |-> c_address,
                      from_value |-> SpaceGet(sp, c_address), to_value |-> c_value]>>
              ELSE <<>>) \o changes_of(sp, call, offset + 1)

\* the writes of the workers (srv_info is set) and the calls of the
\* application (srv_info is None)
NotifyingCalls ==
    {CallFrame(SetCall("set_holding_registers", 0, <<v>>), TRUE) : v \in {1, 2}}
    \cup {CallFrame(SetCall("set_coils", 0, <<TRUE>>), TRUE),
          CallFrame(SetCall("set_coils", 0, <<FALSE>>), TRUE),
          CallFrame(SetCall("set_holding_registers", 0, <<3>>), FALSE)}

\* what a change method of the application does: nothing more than logging,
\* a get_ of the element that has changed, or a set_ of it
Callbacks == {"log", "get", "set"}

callback_call(cb, change) ==
    IF cb = "get"
    THEN GetCall(IF change.space = "coils" THEN "get_coils" ELSE "get_holding_registers",
                 change.address, 1)
    ELSE SetCall(IF change.space = "coils" THEN "set_coils" ELSE "set_holding_registers",
                 change.address, <<change.from_value>>)

\* a worker enters a write of the DataBank, or the application a set_ method
NtfBegin(c, frame) ==
    /\ callers[c].pc = "idle"
    /\ ncalls < MaxCalls
    /\ ncalls' = ncalls + 1
    /\ callers' = [callers EXCEPT ![c] = [NoCaller EXCEPT !.pc = "run", !.kind = "notify",
                                                          !.todo = <<frame>>]]
    /\ UNCHANGED <<srv_vars, wire_vars, cl, pc, cur, res, rx_pdu, prev, th, held, committed,
                   net_vars>>

\* with self._coils_lock / with self._h_regs_lock: a Lock, which a thread
\* that holds it already cannot take again
NtfAcquire(c) ==
    /\ callers[c].pc = "run"
    /\ Top(c).stage = "with"
    /\ lock_free(held, call_space(Top(c).call.method))
    /\ held' = held \cup {call_space(Top(c).call.method)}
    /\ callers' = WithTop(c, [Top(c) EXCEPT !.stage = "locked", !.holds = TRUE])
    /\ UNCHANGED <<srv_vars, wire_vars, cl_vars, th, committed, net_vars>>

\* the body of the with block
NtfBody(c) ==
    /\ callers[c].pc = "run"
    /\ Top(c).stage = "locked"
    /\ LET call == Top(c).call
           space == call_space(call.method)
           ok == call_in_bounds(bank, call)
       IN  /\ bank' = call_applied(bank, call)
           /\ callers' = WithTop(c, [Top(c) EXCEPT
                             !.stage = IF notify_in_with /\ ok /\ call_is_set(call.method)
                                       THEN "notify" ELSE "release",
                             !.changes = IF ok /\ call_is_set(call.method)
                                         THEN changes_of(bank[space], call, 0) ELSE <<>>])
    /\ UNCHANGED <<device_id, worker, last, wire_vars, cl_vars, th, held, committed, net_vars>>

\* the end of the with block: the lock is released.  A call that found its
\* addresses out of bounds returns None from inside the block.
NtfRelease(c) ==
    /\ callers[c].pc = "run"
    /\ Top(c).stage = "release"
    /\ held' = held \ {call_space(Top(c).call.method)}
    /\ callers' = WithTop(c, [Top(c) EXCEPT
                      !.holds = FALSE,
                      !.stage = IF notify_in_with \/ ~call_is_set(Top(c).call.method)
                                   \/ ~call_in_bounds(bank, Top(c).call)
                                THEN "return" ELSE "notify"])
    /\ UNCHANGED <<srv_vars, wire_vars, cl_vars, th, committed, net_vars>>

\* one turn of the loop over changes_list, when srv_info is set: the change
\* method is called, and does cb
NtfNotify(c, cb) ==
    /\ callers[c].pc = "run"
    /\ Top(c).stage = "notify"
    /\ Top(c).srv_info
    /\ Top(c).changes # <<>>
    /\ delivered' = [delivered EXCEPT ![Head(Top(c).changes).space] =
                        Append(@, Head(Top(c).changes))]
    /\ LET rest == [Top(c) EXCEPT !.changes = Tail(@)]
       IN  callers' = [callers EXCEPT ![c].todo =
                          (IF cb = "log" THEN <<>>
                           ELSE <<CallFrame(callback_call(cb, Head(Top(c).changes)), FALSE)>>)
                          \o <<rest>> \o Tail(@)]
    /\ UNCHANGED <<srv_vars, wire_vars, cl_vars, th, held, committed, running, service, conns,
                   mei, gw>>

\* the loop over changes_list is over, or srv_info is None
NtfEndLoop(c) ==
    /\ callers[c].pc = "run"
    /\ Top(c).stage = "notify"
    /\ ~Top(c).srv_info \/ Top(c).changes = <<>>
    /\ callers' = WithTop(c, [Top(c) EXCEPT !.changes = <<>>,
                                            !.stage = IF Top(c).holds THEN "release"
                                                      ELSE "return"])
    /\ UNCHANGED <<srv_vars, wire_vars, cl_vars, th, held, committed, net_vars>>

\* the method returns: to the change method that called it, or to the thread
NtfReturn(c) ==
    /\ callers[c].pc = "run"
    /\ Top(c).stage = "return"
    /\ callers' = [callers EXCEPT ![c] = IF Len(@.todo) = 1 THEN NoCaller
                                         ELSE [@ EXCEPT !.todo = Tail(@)]]
    /\ UNCHANGED <<srv_vars, wire_vars, cl_vars, th, held, committed, net_vars>>

\* a step of thread c in a call
NtfStep(c) ==
    \/ NtfAcquire(c)
    \/ NtfBody(c)
    \/ NtfRelease(c)
    \/ \E cb \in Callbacks : NtfNotify(c, cb)
    \/ NtfEndLoop(c)
    \/ NtfReturn(c)

NextCallbacks ==
    \/ \E c \in Callers, frame \in NotifyingCalls : NtfBegin(c, frame)
    \/ \E c \in Callers : NtfStep(c)

SpecCallbacks == InitStore /\ [][NextCallbacks]_vars

\* The threads are scheduled: a thread that can take a step takes one in the
\* end.  A thread waits for a lock only while another thread is in the with
\* block of a call, which that thread leaves in two steps.
SpecCallbacksLive ==
    /\ SpecCallbacks
    /\ \A c \in Callers : WF_vars(NtfStep(c))

\* the same threads with change methods that log the change and do nothing
\* else, the writes being those of the workers
NextNotify ==
    \/ \E c \in Callers, frame \in {f \in NotifyingCalls : f.srv_info} : NtfBegin(c, frame)
    \/ \E c \in Callers :
          \/ NtfAcquire(c)
          \/ NtfBody(c)
          \/ NtfRelease(c)
          \/ NtfNotify(c, "log")
          \/ NtfEndLoop(c)
          \/ NtfReturn(c)

SpecNotify == InitStore /\ [][NextNotify]_vars

\* ------------------------------------------------------------ server and raw peers
\* Peers connect to a running server and write request frames on their
\* connections, several in a row if they wish.  Each connection has a worker
\* thread in ModbusService.handle, whose position is
\*   check_h / check_p   in _recv_all(7) / _recv_all(length - 1), before the
\*                       test of server_running
\*   recv_h / recv_p     in the recv() that follows the test
\*   send                in _send_all
\* A connection keeps what the peer wrote and the worker did not read (rx,
\* eof once the peer has closed), the response to send (tx), whether the
\* request in progress changed the data bank, why the worker ended, the
\* transaction ids of the frames in arrival order and the log of the worker.
InitServer ==
    /\ bank = DataBankInit(DEFAULT_SIZE, DEFAULT_SIZE, DEFAULT_SIZE, DEFAULT_SIZE)
    /\ device_id = DeviceId0
    /\ worker = "none"
    /\ c2s = <<>>
    /\ s2c = <<>>
    /\ cl = NewClient(UnitId, FALSE, FALSE)
    /\ pc = "idle"
    /\ cur = NoCall
    /\ res = NoValue
    /\ rx_pdu = <<>>
    /\ prev = NoCall
    /\ ncalls = 0
    /\ last = NoTurn
    /\ th = NoThread(bank)
    /\ held = {}
    /\ callers = [c \in Callers |-> NoCaller]
    /\ committed = bank
    /\ running = TRUE
    /\ service = "listening"
    /\ conns = [k \in Conns |-> NoConn]
    /\ mei = NoMei
    /\ gw = NoGateway
    /\ delivered = [coils |-> <<>>, h_regs |-> <<>>]

\* the request PDUs of the peers: a read, a write, a function code that the
\* engine cannot answer
PeerRequests == {<<READ_HOLDING_REGISTERS, 0, 0, 0, 1>>,
                 <<WRITE_SINGLE_REGISTER, 0, 0, 0, 7>>,
                 <<128, 0>>}

\* the frames a peer writes for a PDU: the frame, the frame with a protocol
\* id that is not modbus, and the frame without its last byte
PeerFrames(transaction_id, pdu) ==
    {add_mbap(transaction_id, UnitId, pdu),
     PackH(transaction_id) \o PackH(1) \o PackH(Len(pdu) + 1) \o <<UnitId>> \o pdu,
     SubSeq(add_mbap(transaction_id, UnitId, pdu), 1, 6 + Len(pdu))}

others_vars == <<worker, last, wire_vars, cl, pc, cur, res, rx_pdu, prev, db_vars, mei, side_vars>>

\* the socket of connection k is closed by its worker, which ends
Closed(c, why) ==
    [c EXCEPT !.state = "closed", !.rx = <<>>, !.tx = <<>>, !.changed = FALSE, !.why = why]

\* ModbusServer.start() with no_block on a server that is not running: a new
\* listening socket and a new thread for _serve; start() returns
Start ==
    /\ ~running
    /\ service = "stopped"
    /\ service' = "started"
    /\ UNCHANGED <<bank, device_id, ncalls, running, conns, others_vars>>

\* _serve: self._evt_running.set(), then serve_forever
ServeBegin ==
    /\ service = "started"
    /\ service' = "listening"
    /\ running' = TRUE
    /\ UNCHANGED <<bank, device_id, ncalls, conns, others_vars>>

\* ModbusServer.stop() on a running server: shutdown() ends serve_forever and
\* server_close() closes the listening socket; stop() returns.  When noting,
\* old is set for the connections whose worker is there at this stop().
StopNoting(noting) ==
    /\ running
    /\ service = "listening"
    /\ service' = "shutdown"
    /\ conns' = [k \in Conns |-> IF noting /\ conns[k].state = "serving"
                                 THEN [conns[k] EXCEPT !.old = TRUE] ELSE conns[k]]
    /\ UNCHANGED <<bank, device_id, ncalls, running, others_vars>>

Stop == StopNoting(FALSE)

\* _serve, after serve_forever has returned: finally evt_running.clear()
ServeEnd ==
    /\ service = "shutdown"
    /\ service' = "stopped"
    /\ running' = FALSE
    /\ UNCHANGED <<bank, device_id, ncalls, conns, others_vars>>

\* serve_forever accepts a connection and starts its ModbusService thread
Accept(k) ==
    /\ service = "listening"
    /\ conns[k].state = "none"
    /\ conns' = [conns EXCEPT ![k] = [NoConn EXCEPT !.state = "serving"]]
    /\ UNCHANGED <<bank, device_id, ncalls, running, service, others_vars>>

\* the peer of connection k writes a frame
PeerSend(k, frame) ==
    /\ ncalls < MaxCalls
    /\ conns[k].state = "serving"
    /\ ~conns[k].eof
    /\ conns' = [conns EXCEPT ![k].rx = @ \o frame,
                              ![k].arrived = Append(@, UnpackH(frame, 0))]
    /\ ncalls' = ncalls + 1
    /\ UNCHANGED <<bank, device_id, running, service, others_vars>>

\* the peer of connection k closes its socket
PeerClose(k) ==
    /\ conns[k].state = "serving"
    /\ ~conns[k].eof
    /\ conns' = [conns EXCEPT ![k].eof = TRUE]
    /\ UNCHANGED <<bank, device_id, ncalls, running, service, others_vars>>

\* _recv_all: "if not self.server_running: raise NetworkError", before a recv
WorkerCheck(k) ==
    /\ conns[k].state = "serving"
    /\ conns[k].pos \in {"check_h", "check_p"}
    /\ conns' = [conns EXCEPT ![k] =
                   IF ~running THEN Closed(@, "stop")
                   ELSE [@ EXCEPT !.pos = IF conns[k].pos = "check_h" THEN "recv_h" ELSE "recv_p"]]
    /\ UNCHANGED <<bank, device_id, ncalls, running, service, others_vars>>

\* _recv_all: the recv() ends with socket.timeout after 1 s without a byte,
\* and the loop goes back to the test of server_running
WorkerTimeout(k) ==
    /\ conns[k].state = "serving"
    /\ ~conns[k].eof
    /\ \/ conns[k].pos = "recv_h" /\ Len(conns[k].rx) < 7
       \/ conns[k].pos = "recv_p" /\ ~service_ready(conns[k].rx)
    /\ conns' = [conns EXCEPT ![k].pos = IF @ = "recv_h" THEN "check_h" ELSE "check_p"]
    /\ UNCHANGED <<bank, device_id, ncalls, running, service, others_vars>>

\* _recv_all: the recv() returns null because the peer has closed
WorkerRecvNull(k) ==
    /\ conns[k].state = "serving"
    /\ conns[k].eof
    /\ \/ conns[k].pos = "recv_h" /\ Len(conns[k].rx) < 7
       \/ conns[k].pos = "recv_p" /\ ~service_ready(conns[k].rx)
    /\ conns' = [conns EXCEPT ![k] = Closed(@, "socket")]
    /\ UNCHANGED <<bank, device_id, ncalls, running, service, others_vars>>

\* handle: request.mbap.raw = self._recv_all(7); the setter raises
\* DataFormatError on a header that is not valid
WorkerRecvHeader(k) ==
    /\ conns[k].state = "serving"
    /\ conns[k].pos = "recv_h"
    /\ Len(conns[k].rx) >= 7
    /\ conns' = [conns EXCEPT ![k] =
                   IF mbap_valid(mbap_decode(SubSeq(@.rx, 1, 7)))
                   THEN [@ EXCEPT !.pos = "check_p"]
                   ELSE Closed(@, "framing")]
    /\ UNCHANGED <<bank, device_id, ncalls, running, service, others_vars>>

\* handle: request.pdu.raw = self._recv_all(length - 1), set_response_mbap,
\* the engine; an exception of the engine ends the loop.  late tells that
\* the worker has given a request to the engine after a stop().
WorkerRecvPdu(k) ==
    /\ conns[k].state = "serving"
    /\ conns[k].pos = "recv_p"
    /\ service_ready(conns[k].rx)
    /\ \E t \in {service_turn([bank |-> bank, device_id |-> device_id], conns[k].rx)} :
          /\ bank' = t.bank
          /\ conns' = [conns EXCEPT ![k] =
                         IF t.close THEN Closed([@ EXCEPT !.late = conns[k].old], "engine")
                         ELSE [@ EXCEPT !.rx = SliceFrom(@, t.used),
                                        !.late = conns[k].old,
                                        !.tx = t.tx,
                                        !.pos = "send",
                                        !.changed = (t.bank # bank),
                                        !.log = Append(@, [ev |-> "request",
                                                           tid |-> UnpackH(t.request, 0)])]]
    /\ UNCHANGED <<device_id, ncalls, running, service, others_vars>>

\* handle: self._send_all(response.raw).  sendall() ends well ("ok"), with
\* socket.timeout after a part of the frame at most ("timeout": _send_all
\* returns False, which handle does not look at), or with another socket
\* error ("error": the exception ends the loop).
WorkerSend(k, how) ==
    /\ conns[k].state = "serving"
    /\ conns[k].pos = "send"
    /\ conns' = [conns EXCEPT ![k] =
                   IF how = "error" THEN Closed(@, "socket")
                   ELSE [@ EXCEPT !.tx = <<>>,
                                  !.pos = "check_h",
                                  !.changed = FALSE,
                                  !.log = Append(@, [ev |-> IF how = "ok" THEN "sent" ELSE "part",
                                                     tid |-> UnpackH(conns[k].tx, 0)])]]
    /\ UNCHANGED <<bank, device_id, ncalls, running, service, others_vars>>

\* a step of the worker of connection k
Worker(k) ==
    \/ WorkerCheck(k)
    \/ WorkerTimeout(k)
    \/ WorkerRecvNull(k)
    \/ WorkerRecvHeader(k)
    \/ WorkerRecvPdu(k)
    \/ \E how \in {"ok", "timeout", "error"} : WorkerSend(k, how)

NextServer ==
    \/ Start
    \/ ServeBegin
    \/ Stop
    \/ ServeEnd
    \/ \E k \in Conns : Accept(k)
    \/ \E k \in Conns, pdu \in PeerRequests :
          \E frame \in PeerFrames(ncalls + 1, pdu) : PeerSend(k, frame)
    \/ \E k \in Conns : PeerClose(k)
    \/ \E k \in Conns : Worker(k)

SpecServer == InitServer /\ [][NextServer]_vars

\* the same server, stopped and started again while peers keep their
\* connections and send well-formed requests
NextRestart ==
    \/ Start
    \/ ServeBegin
    \/ StopNoting(TRUE)
    \/ ServeEnd
    \/ \E k \in Conns : Accept(k)
    \/ \E k \in Conns, pdu \in PeerRequests : PeerSend(k, add_mbap(ncalls + 1, UnitId, pdu))
    \/ \E k \in Conns : PeerClose(k)
    \/ \E k \in Conns : Worker(k)

SpecRestart == InitServer /\ [][NextRestart]_vars

\* Peers that write what they wish on a connection of a running server: a
\* header with any protocol id and length, then the bytes of a PDU, all of
\* them or not, and the rest later or never.
HeaderOf(transaction_id, protocol_id, length) ==
    PackH(transaction_id) \o PackH(protocol_id) \o PackH(length) \o <<UnitId>>

\* a request to write 7 to the holding register 0, then bytes that the
\* function does not read
LongPdu(n) == <<WRITE_SINGLE_REGISTER, 0, 0, 0, 7>> \o Bytes(n - 5, 0)

PeerWrites(transaction_id) ==
    {HeaderOf(transaction_id, protocol_id, length) \o SubSeq(LongPdu(255), 1, n) :
        protocol_id \in {0, 1}, length \in {6}, n \in {0, 3, 5}}
    \cup {HeaderOf(transaction_id, 0, length) \o SubSeq(LongPdu(255), 1, length - 1) :
            length \in {0, 2, 3, 255, 256}}
    \cup {HeaderOf(transaction_id, 0, 256) \o LongPdu(255)}
    \cup {SubSeq(HeaderOf(transaction_id, 0, 6), 1, 3), <<0, 7>>, <<0, 0, 0>>}

NextFraming ==
    \/ \E k \in Conns : Accept(k)
    \/ \E k \in Conns : \E bytes \in PeerWrites(ncalls + 1) : PeerSend(k, bytes)
    \/ \E k \in Conns : PeerClose(k)
    \/ \E k \in Conns : Worker(k)

SpecFraming == InitServer /\ [][NextFraming]_vars

\* The threads go on: a worker that can take a step takes one (its recv()
\* has a timeout of 1 s, set in setup), and _serve ends once serve_forever
\* has returned.
SpecServerLive ==
    /\ SpecServer
    /\ WF_vars(ServeBegin)
    /\ WF_vars(ServeEnd)
    /\ \A k \in Conns : WF_vars(Worker(k))

\* ------------------------------------------------------------ device identification by segments
\* The application sets the device_id attribute of a running server, and a
\* peer sends read device identification requests on its connection: a first
\* request, then one more with object_id = next_object_id for as long as the
\* response says that more follows.

\* the bytes of an object of the store (the content does not matter)
ObjectValue(id, len) == List([i \in 1..len |-> id % 256])

\* a DeviceIdentification: the constructor sets the seven named objects (0 to
\* 6, b'' by default), objects_id adds others
NewDeviceIdentification(named_len, objects_len) ==
    [configured |-> TRUE,
     objs |-> [i \in (0..6) \cup DOMAIN objects_len |->
                 IF i \in DOMAIN objects_len THEN ObjectValue(i, objects_len[i])
                 ELSE ObjectValue(i, named_len[i + 1])]]

\* device_id = None
DeviceIdNone == [configured |-> FALSE, objs |-> <<>>]

NamedLengths == {<<2, 1, 3, 0, 0, 0, 0>>, <<120, 120, 1, 120, 120, 120, 0>>,
                 <<1, 1, 244, 1, 245, 1, 0>>}
ObjectsLengths == {[i \in {} |-> 0],
                   [i \in {128, 129, 200} |-> 120],
                   [i \in {128, 255} |-> IF i = 128 THEN 1 ELSE 250]}
DeviceIds ==
    {NewDeviceIdentification(n, o) : n \in NamedLengths, o \in ObjectsLengths}
        \cup {DeviceIdNone}

MeiCodes == {0, 1, 2, 3, 4, 5}
MeiObjectIds == {0, 1, 4, 129, 255}

\* the application sets server.device_id
SetDeviceId(d) ==
    /\ mei.phase # "stream"
    /\ d # device_id
    /\ device_id' = d
    /\ mei' = [NoMei EXCEPT !.changed = TRUE]
    /\ UNCHANGED <<bank, worker, last, wire_vars, cl_vars, db_vars, running, service, conns,
                   side_vars>>

\* the PDU of a read device identification request
MeiPdu(code, object_id) ==
    <<ENCAPSULATED_INTERFACE_TRANSPORT, MEI_TYPE_READ_DEVICE_ID, code, object_id>>

\* the n objects (id, length, bytes) that a response PDU holds from offset off
RECURSIVE SegmentObjects(_, _, _)
SegmentObjects(pdu, n, off) ==
    IF n = 0 \/ off + 2 > Len(pdu) THEN <<>>
    ELSE <<[id |-> pdu[off + 1], value |-> Slice(pdu, off + 2, off + 2 + pdu[off + 2])]>>
         \o SegmentObjects(pdu, n - 1, off + 2 + pdu[off + 2])

\* the worker's turn on a request of the peer, and what the peer keeps of it
\* (odd tells whether the number of its requests is odd)
MeiTurn(code, first_id, object_id, got) ==
    \E t \in {service_turn([bank |-> bank, device_id |-> device_id],
                           add_mbap(1, UnitId, MeiPdu(code, object_id)))} :
       \E pdu \in {SliceFrom(t.tx, 7)} :
          /\ mei' = [phase |-> IF ~t.close /\ Len(pdu) >= 7 /\ pdu[5] = 255
                               THEN "stream" ELSE "done",
                     code |-> code,
                     first_id |-> first_id,
                     request |-> MeiPdu(code, object_id),
                     response |-> pdu,
                     closed |-> t.close,
                     got |-> IF ~t.close /\ Len(pdu) >= 7
                             THEN got \o SegmentObjects(pdu, pdu[7], 7)
                             ELSE got,
                     changed |-> mei.changed,
                     odd |-> ~mei.odd]
          /\ bank' = t.bank

\* a first request
MeiRequest(code, object_id) ==
    /\ mei.phase # "stream"
    /\ MeiTurn(code, object_id, object_id, <<>>)
    /\ UNCHANGED <<device_id, worker, last, wire_vars, cl_vars, db_vars, running, service, conns,
                   side_vars>>

\* the request for the next segment: object_id is the next_object_id of the
\* last response
MeiFollow ==
    /\ mei.phase = "stream"
    /\ MeiTurn(mei.code, mei.first_id, mei.response[6], mei.got)
    /\ UNCHANGED <<device_id, worker, last, wire_vars, cl_vars, db_vars, running, service, conns,
                   side_vars>>

NextDeviceId ==
    \/ \E d \in DeviceIds : SetDeviceId(d)
    \/ \E code \in MeiCodes, object_id \in MeiObjectIds : MeiRequest(code, object_id)
    \/ MeiFollow

SpecDeviceId == InitServer /\ [][NextDeviceId]_vars

\* the peer goes on asking while more follows
SpecDeviceIdLive == SpecDeviceId /\ WF_vars(MeiFollow)

\* ------------------------------------------------------------ sizes of the PDUs
\* A peer sends requests of every size that a header can announce, reads of
\* the largest quantities and requests for the device identification, to a
\* server whose device identification holds objects of any length.
SizePdus ==
    {LongPdu(n) : n \in {5, 252, 253, 254, 255}}
    \cup {<<fc>> \o PackH(0) \o PackH(quantity) :
            fc \in {READ_COILS, READ_DISCRETE_INPUTS}, quantity \in {1, 1999, 2000}}
    \cup {<<fc>> \o PackH(0) \o PackH(quantity) :
            fc \in {READ_HOLDING_REGISTERS, READ_INPUT_REGISTERS}, quantity \in {1, 124, 125}}
    \cup {WriteReadPdu(0, 123, 0, 1, 2, 2)}
    \cup {MeiPdu(code, object_id) : code \in MeiCodes, object_id \in MeiObjectIds}
    \cup {<<99>> \o Bytes(n, 0) : n \in {1, 253}}

InitSize ==
    /\ bank = DataBankInit(DEFAULT_SIZE, DEFAULT_SIZE, DEFAULT_SIZE, DEFAULT_SIZE)
    /\ device_id \in DeviceIds
    /\ worker = "none"
    /\ c2s = <<>>
    /\ s2c = <<>>
    /\ cl = NewClient(UnitId, FALSE, FALSE)
    /\ pc = "idle"
    /\ cur = NoCall
    /\ res = NoValue
    /\ rx_pdu = <<>>
    /\ prev = NoCall
    /\ ncalls = 0
    /\ last = NoTurn
    /\ th = NoThread(bank)
    /\ held = {}
    /\ callers = [c \in Callers |-> NoCaller]
    /\ committed = bank
    /\ running = TRUE
    /\ service = "listening"
    /\ conns = [k \in Conns |-> NoConn]
    /\ mei = NoMei
    /\ gw = NoGateway
    /\ delivered = [coils |-> <<>>, h_regs |-> <<>>]

NextSize == \E pdu \in SizePdus : Serve(pdu)

SpecSize == InitSize /\ [][NextSize]_vars

\* ------------------------------------------------------------ properties
\* the call that has just returned went through the server: its request was
\* sent on an open connection and the worker took it
Served == pc = "done" /\ last.request # <<>>

\* C1: write_multiple_registers(a, w) and write_multiple_coils(a, w), with w and
\* a in range, return True, and the read_holding_registers(a, |w|) or
\* read_coils(a, |w|) that immediately follows returns exactly w.
C1_MultiWriteRoundTrip ==
    /\ (Served /\ cur.m \in {"write_multiple_registers", "write_multiple_coils"})
          => res.kind = "True"
    /\ (/\ Served
        /\ \/ prev.m = "write_multiple_registers" /\ cur.m = "read_holding_registers"
           \/ prev.m = "write_multiple_coils" /\ cur.m = "read_coils"
        /\ cur.addr = prev.addr
        /\ cur.nb = Len(prev.vals))
          => (res.kind = "list" /\ res.data = prev.vals)

\* the largest coils write reaching the last address, read back
C1_Witness ==
    /\ Served
    /\ prev.m = "write_multiple_coils" /\ cur.m = "read_coils"
    /\ prev.addr = 63568 /\ Len(prev.vals) = 1968
    /\ cur.addr = prev.addr /\ cur.nb = 1968
    /\ res.kind = "list"
    /\ \E k \in 1..1968 : res.data[k]

\* C2: write_single_register(a, v) and write_single_coil(a, b) return True, the
\* server's acknowledgement is the request's address and raw value byte for
\* byte, and the read_holding_registers(a, 1) or read_coils(a, 1) that follows
\* returns [v] or [b].
C2_SingleWriteRoundTrip ==
    /\ (Served /\ cur.m \in {"write_single_register", "write_single_coil"})
          => /\ res.kind = "True"
             /\ Len(last.response) = 12
             /\ SubSeq(last.response, 9, 12) = SubSeq(last.request, 9, 12)
    /\ (/\ Served
        /\ \/ prev.m = "write_single_register" /\ cur.m = "read_holding_registers"
           \/ prev.m = "write_single_coil" /\ cur.m = "read_coils"
        /\ cur.addr = prev.addr
        /\ cur.nb = 1)
          => (res.kind = "list" /\ res.data = prev.vals)

\* a coil set at the last address, read back
C2_Witness ==
    /\ Served
    /\ prev.m = "write_single_coil" /\ prev.addr = 65535 /\ prev.vals = <<TRUE>>
    /\ cur.m = "read_coils" /\ cur.addr = 65535 /\ cur.nb = 1
    /\ res.kind = "list"

\* a request frame the worker took whose MBAP is valid and whose PDU has two
\* bytes or more, for a function code that is not a supported one
UnsupportedRequest ==
    /\ Len(last.request) >= 9
    /\ last.request[8] \notin SUPPORTED_FUNCTION_CODES

\* 0x80 | func_code
Or80(func_code) == IF func_code >= 128 THEN func_code ELSE func_code + 128

\* C3: a well-formed request for a function code that is not supported is
\* answered with the PDU (0x80 | code, illegal function), the data bank is
\* unchanged and the connection stays open.
C3_IllegalFunction ==
    UnsupportedRequest
      => /\ SliceFrom(last.response, 7) = <<Or80(last.request[8]), EXP_ILLEGAL_FUNCTION>>
         /\ ~last.bank_changed
         /\ ~last.closed

\* what holds: the same for the function codes below 0x80
C3_Below80 ==
    (UnsupportedRequest /\ last.request[8] < 128)
      => /\ SliceFrom(last.response, 7) = <<Or80(last.request[8]), EXP_ILLEGAL_FUNCTION>>
         /\ ~last.bank_changed
         /\ ~last.closed

\* a request for function code 0x80: the worker sends nothing and closes
C3_Witness ==
    /\ UnsupportedRequest
    /\ last.request[8] = 128
    /\ last.response = <<>>
    /\ last.closed

\* C4: a response frame the worker sends has the transaction id, the protocol
\* id and the unit id of the request it answers and a length field of 1 + the
\* number of its PDU bytes; a frame the client sends has protocol id 0 and a
\* length field of 1 + len(pdu).
C4_MbapEcho ==
    /\ last.response # <<>>
          => /\ Len(last.response) >= 7 /\ Len(last.request) >= 7
             /\ SubSeq(last.response, 1, 4) = SubSeq(last.request, 1, 4)
             /\ last.response[7] = last.request[7]
             /\ UnpackH(last.response, 4) = 1 + (Len(last.response) - 7)
    /\ (pc = "wait" /\ last.request = <<>>)
          => /\ Len(c2s) >= 7
             /\ UnpackH(c2s, 2) = 0
             /\ UnpackH(c2s, 4) = 1 + Len(tx_pdu_of(cur))
             /\ SliceFrom(c2s, 7) = tx_pdu_of(cur)

\* an exception response sent to a request with the other transaction id
C4_Witness ==
    /\ Len(last.response) = 9
    /\ last.response[8] >= 128
    /\ UnpackH(last.request, 0) = 65535
    /\ UnpackH(last.response, 0) = 65535

\* an argument of the typed call c is out of the range the method accepts
OutOfRange(c) ==
    LET bad_addr(a) == a < 0 \/ a > 65535
        bad_count(n, max) == n < 1 \/ n > max
        bad_value == \E k \in 1..Len(c.vals) : c.vals[k] < 0 \/ c.vals[k] > 65535
    IN  CASE c.m \in BitReadMethods ->
                bad_addr(c.addr) \/ bad_count(c.nb, 2000) \/ c.addr + c.nb > 65536
          [] c.m \in ReadMethods \ BitReadMethods ->
                bad_addr(c.addr) \/ bad_count(c.nb, 125) \/ c.addr + c.nb > 65536
          [] c.m = "write_single_coil" -> bad_addr(c.addr)
          [] c.m = "write_single_register" -> bad_addr(c.addr) \/ bad_value
          [] c.m = "write_multiple_coils" ->
                bad_addr(c.addr) \/ bad_count(Len(c.vals), 1968)
                \/ c.addr + Len(c.vals) > 65536
          [] c.m = "write_multiple_registers" ->
                bad_addr(c.addr) \/ bad_count(Len(c.vals), 123)
                \/ c.addr + Len(c.vals) > 65536 \/ bad_value
          [] c.m = "write_read_multiple_registers" ->
                bad_addr(c.addr) \/ bad_count(Len(c.vals), 121)
                \/ c.addr + Len(c.vals) > 65536 \/ bad_value
                \/ bad_addr(c.r_addr) \/ bad_count(c.nb, 125) \/ c.r_addr + c.nb > 65536
          [] c.m = "read_device_identification" ->
                c.read_code < 1 \/ c.read_code > 4 \/ c.object_id < 0 \/ c.object_id > 255
          [] OTHER -> FALSE

\* C5: a typed request called with an argument out of range raises ValueError
\* with no connect and no send, and leaves the socket, last_error and
\* last_except as they were.
C5_ValueErrorBeforeIO ==
    [][(pc = "idle" /\ pc' # "idle" /\ OutOfRange(cur'))
          => /\ pc' = "done"
             /\ res'.kind = "ValueError"
             /\ cl' = cl
             /\ c2s' = c2s /\ s2c' = s2c /\ worker' = worker]_vars

\* a call that raised ValueError on an open socket, the exception of an
\* earlier request still recorded
C5_Witness ==
    /\ pc = "done"
    /\ OutOfRange(cur)
    /\ res.kind = "ValueError"
    /\ cl.sock = "open"
    /\ cl.last_error = MB_EXCEPT_ERR
    /\ cl.last_except = EXP_DATA_ADDRESS

\* the call returned failure
Failure == res.kind \in {"None", "False"}

\* C9 as stated: when the first byte of the response PDU is >= 0x80 the call
\* returns failure, last_error is MB_EXCEPT_ERR and last_except is the second
\* byte of the response PDU.
C9_AnyExceptPdu ==
    (pc = "done" /\ Len(rx_pdu) >= 1 /\ rx_pdu[1] >= 128)
      => /\ Failure
         /\ cl.last_error = MB_EXCEPT_ERR
         /\ Len(rx_pdu) >= 2
         /\ cl.last_except = rx_pdu[2]

\* C9: when the response PDU has two bytes or more and its first byte is
\* >= 0x80, the call returns failure, last_error is MB_EXCEPT_ERR and
\* last_except is the second byte of the response PDU.
C9_ExceptPdu ==
    (pc = "done" /\ Len(rx_pdu) >= 2 /\ rx_pdu[1] >= 128)
      => /\ Failure
         /\ cl.last_error = MB_EXCEPT_ERR
         /\ cl.last_except = rx_pdu[2]

\* write_multiple_registers answered with the exception 0x90, 0x02
C9_Witness ==
    /\ pc = "done"
    /\ cur.m = "write_multiple_registers"
    /\ rx_pdu = <<144, 2>>
    /\ res.kind = "False"
    /\ cl.last_except = 2

\* the call returned a positive result
Positive == res.kind \in {"list", "True", "response", "pdu"}

\* C10: a request method returns a positive result if and only if last_error
\* is MB_NO_ERR when it returns, and after a positive result last_except is
\* EXP_NONE.
C10_PositiveIffNoError ==
    (pc = "done" /\ res.kind # "ValueError")
      => /\ Positive <=> cl.last_error = MB_NO_ERR
         /\ Positive => cl.last_except = EXP_NONE

\* write_multiple_registers returned False and last_error is MB_NO_ERR
C10_Witness ==
    /\ pc = "done"
    /\ cur.m = "write_multiple_registers"
    /\ res.kind = "False"
    /\ cl.last_error = MB_NO_ERR

\* ------------------------------------------------------------ DataBank properties
\* a set_ method has left its with block
Left == th.pc \in {"notify", "done"}

\* 0 <= a and a + len(values) <= size of the space the call writes
InBounds ==
    /\ th.address >= 0
    /\ th.address + Len(th.list) <= bank[bank_space(th.op)].size

\* C6: for each of the four spaces and any sizes, set_<space>(a, values)
\* succeeds iff 0 <= a and a + len(values) <= size of that same space; when
\* it does not succeed it returns None, raises nothing, and every element of
\* every space is unchanged.
C6_BoundsOfSameSpace ==
    Left =>
        /\ (th.ret = "True") <=> InBounds
        /\ th.ret # "True" => (th.ret = "None" /\ bank = th.before)

\* what holds of C6: coils, holding registers and input registers
C6_ThreeSpaces ==
    (Left /\ th.op # "set_discrete_inputs") =>
        /\ (th.ret = "True") <=> InBounds
        /\ th.ret # "True" => (th.ret = "None" /\ bank = th.before)

\* the two ways set_discrete_inputs leaves C6: a write past the end of the
\* discrete inputs that is within the size of the coils raises and keeps the
\* elements written before, and a write within the discrete inputs that is
\* past the size of the coils is refused
C6_Witness ==
    /\ Left
    /\ th.op = "set_discrete_inputs"
    /\ \/ ~InBounds /\ th.ret = "IndexError" /\ bank # th.before
       \/ InBounds /\ th.ret = "None"

\* the positions of the call's write whose stored value differed from the
\* written value
ChangedAddresses ==
    {a \in th.address .. (th.address + Len(th.list) - 1) :
        SpaceGet(th.before[bank_space(th.op)], a)
            # bank_list(th.op, th.list)[a - th.address + 1]}

\* C7: for a successful set_coils / set_holding_registers made with srv_info,
\* the change callback is invoked exactly once for each address whose stored
\* value differed from the written value, with that address, the old value
\* and the new value, and for no other address; every invocation happens
\* after the write has been fully applied and while the space lock is not
\* held.
C7_NotifyChanges ==
    (th.ret = "True" /\ th.srv_info) =>
        /\ \A k \in 1..Len(th.log) :
              /\ th.log[k].address \in ChangedAddresses
              /\ th.log[k].from_value
                    = SpaceGet(th.before[bank_space(th.op)], th.log[k].address)
              /\ th.log[k].to_value
                    = bank_list(th.op, th.list)[th.log[k].address - th.address + 1]
              /\ th.log[k].applied
              /\ ~th.log[k].lock_held
              /\ \A j \in 1..Len(th.log) : th.log[j].address = th.log[k].address => j = k
        /\ th.pc = "done" =>
              {th.log[k].address : k \in 1..Len(th.log)} = ChangedAddresses

\* a write of two elements of which one only differed has been notified
C7_Witness ==
    /\ th.pc = "done"
    /\ th.ret = "True"
    /\ th.srv_info
    /\ Len(th.list) = 2
    /\ Len(th.log) = 1
    /\ th.op = "set_holding_registers"

\* C8: with no other writer in between, the same write (same space, address
\* and values) made a second time leaves the data bank as the first left it,
\* and the second write emits no change notification.
C8_Idempotent ==
    (th.repeat /\ Left) => (bank = th.before /\ th.pending = <<>> /\ th.log = <<>>)

\* a write with srv_info that changed the bank has been made a second time
C8_Witness ==
    /\ th.repeat
    /\ th.pc = "done"
    /\ th.srv_info
    /\ th.ret = "True"
    /\ \E a \in th.address .. (th.address + Len(th.list) - 1) :
          SpaceGet(bank[bank_space(th.op)], a) # bank[bank_space(th.op)].dv

\* ------------------------------------------------------------ client framing properties
\* the call has returned after the client received a complete header
GotHeader == pc = "done" /\ cur # NoCall /\ Len(last.response) >= 7

\* the header received differs from what the client expects
HeaderMismatch ==
    /\ GotHeader
    /\ \/ UnpackH(last.response, 0) # cl.transaction_id
       \/ UnpackH(last.response, 2) # 0
       \/ UnpackH(last.response, 4) >= 256
       \/ last.response[7] # cl.unit_id

\* C11: when the 7-byte header of a response differs from what the client
\* expects (transaction id, protocol id, length >= 256 or unit id), the
\* request returns failure with last_error == MB_RECV_ERR, the socket is
\* closed, and no data of the response is returned to the caller.
C11_HeaderMismatch ==
    HeaderMismatch =>
        /\ res = failure_of(cur.m)
        /\ cl.last_error = MB_RECV_ERR
        /\ cl.last_except = EXP_NONE
        /\ cl.sock = "closed"
        /\ rx_pdu = <<>>

\* a response with the unit id of another device, and nothing else wrong, has
\* been refused by a client that does not close its socket by itself
C11_Witness ==
    /\ HeaderMismatch
    /\ ~cl.auto_close
    /\ UnpackH(last.response, 0) = cl.transaction_id
    /\ UnpackH(last.response, 2) = 0
    /\ UnpackH(last.response, 4) = 3
    /\ Len(last.response) = 9
    /\ last.response[7] # cl.unit_id

\* the call has returned its failure value with a socket or framing error
SocketOrFramingFailure ==
    /\ pc = "done"
    /\ cur # NoCall
    /\ res = failure_of(cur.m)
    /\ cl.last_error \in {MB_CONNECT_ERR, MB_SEND_ERR, MB_RECV_ERR, MB_TIMEOUT_ERR}

\* C12: whenever a client request fails with a socket or framing failure
\* (last_error is MB_CONNECT_ERR, MB_SEND_ERR, MB_RECV_ERR or MB_TIMEOUT_ERR,
\* a response PDU that is too short or whose byte count or echo does not
\* match the request included), the client's socket is closed when the call
\* returns.
C12_FailureClosesSocket == SocketOrFramingFailure => cl.sock = "closed"

\* what holds of C12: the socket is closed when the failure is one of the
\* socket or of the header, that is when no PDU was received
C12_NoPduClosesSocket == (SocketOrFramingFailure /\ ~GotHeader) => cl.sock = "closed"

\* a PDU with an expected header and a content that does not fit the request
\* has been refused, and the socket is still open
C12_Witness ==
    /\ SocketOrFramingFailure
    /\ cl.last_error = MB_RECV_ERR
    /\ ~HeaderMismatch
    /\ rx_pdu # <<>>
    /\ cl.sock = "open"

\* ------------------------------------------------------------ server properties
\* the requests the worker of a connection has given to the engine, in order
Requests(k) ==
    LET IsRequest(e) == e.ev = "request"
    IN  SelectSeq(conns[k].log, IsRequest)

\* the worker handles the requests of its connection in arrival order, and
\* has done nothing between a request and the sending of its response
InArrivalOrder(k) ==
    /\ Len(Requests(k)) <= Len(conns[k].arrived)
    /\ \A i \in 1..Len(Requests(k)) : Requests(k)[i].tid = conns[k].arrived[i]
    /\ \A i \in 1..Len(conns[k].log) :
          conns[k].log[i].ev # "request" =>
              /\ i > 1
              /\ conns[k].log[i - 1].ev = "request"
              /\ conns[k].log[i - 1].tid = conns[k].log[i].tid

\* C13: within one TCP connection a worker handles requests strictly in
\* arrival order and does not begin reading request k+1 until the complete
\* response frame for request k has been sent; a response that could not be
\* sent completely is never followed by the processing of a further request
\* on that connection.
C13_ResponseBeforeNextRequest ==
    \A k \in Conns :
        /\ InArrivalOrder(k)
        /\ \A i \in 2..Len(conns[k].log) :
              conns[k].log[i].ev = "request" => conns[k].log[i - 1].ev = "sent"

\* what holds of C13: the arrival order, one response attempt per request
C13_ArrivalOrder == \A k \in Conns : InArrivalOrder(k)

\* a worker has handled a second request after sendall() timed out on the
\* response of the first
C13_Witness ==
    \E k \in Conns :
        /\ Len(conns[k].log) = 3
        /\ conns[k].log[2].ev = "part"
        /\ conns[k].log[3].ev = "request"
        /\ conns[k].log[3].tid = conns[k].arrived[2]

\* the worker of connection k ends on a framing, socket or engine error
ErrorClose(k) ==
    /\ conns[k].state = "serving"
    /\ conns'[k].state = "closed"
    /\ conns'[k].why \in {"framing", "socket", "engine"}

\* the step leaves the other connections, the listener and the running flag
\* as they are
OthersGoOn(k) ==
    /\ \A j \in Conns \ {k} : conns'[j] = conns[j]
    /\ service' = service
    /\ running' = running

\* C14: a framing, socket or engine error while serving one connection
\* closes that connection only: the workers of all other connections keep
\* serving their requests, the listener keeps accepting, and the failing
\* request leaves the data bank unchanged.
C14_FailingRequestNoChange ==
    [][\A k \in Conns :
          ErrorClose(k) => (OthersGoOn(k) /\ bank' = bank /\ ~conns[k].changed)]_vars

\* C14 as it holds: the error closes that connection only, and a request on
\* which the header check or the engine raises leaves the data bank
\* unchanged; a write whose response meets a socket error in sendall() was
\* applied before.
C14_ErrorClosesOneConnection ==
    [][\A k \in Conns :
          ErrorClose(k) =>
              /\ OthersGoOn(k)
              /\ bank' = bank
              /\ conns'[k].why # "socket" => ~conns[k].changed]_vars

\* the engine has raised on a request of one connection after a write was
\* applied, while another connection is open and the server listens
C14_Witness ==
    \E k \in Conns, j \in Conns :
        /\ k # j
        /\ conns[k].state = "closed"
        /\ conns[k].why = "engine"
        /\ conns[j].state = "serving"
        /\ service = "listening"
        /\ SpaceGet(bank.h_regs, 0) = 7

\* C15: after stop() is called on a running server, every worker thread that
\* is waiting for request bytes eventually observes the cleared running
\* flag, stops reading and closes its connection, without the peer having to
\* close the socket; no worker keeps serving requests after shutdown.
C15_StopEndsWorkers ==
    \A k \in Conns :
        (service = "shutdown" /\ conns[k].state = "serving") ~> (conns[k].state # "serving")

\* what holds of C15: the workers end unless the server is started again
\* before they look at the flag
C15_StopEndsWorkersUnlessStarted ==
    \A k \in Conns :
        (service = "shutdown" /\ conns[k].state = "serving")
            ~> (conns[k].state # "serving" \/ (running /\ service = "listening"))

\* after a stop() and a start(), the worker of a connection made before the
\* stop is waiting for bytes of a peer that has not closed
C15_Witness ==
    /\ running
    /\ service = "listening"
    /\ \E k \in Conns :
          /\ conns[k].state = "serving"
          /\ conns[k].pos = "recv_h"
          /\ ~conns[k].eof
          /\ conns[k].rx = <<>>
    /\ \E j \in Conns : conns[j].state = "closed" /\ conns[j].why = "stop"

\* ------------------------------------------------------------ device identification properties
\* the stored objects of the range of a stream of requests: those of the
\* category of the read code, from the object id first asked
RequestedRange ==
    CASE mei.code = 1 -> items(device_id.objs, mei.first_id, 2)
      [] mei.code = 2 -> items(device_id.objs, Max(mei.first_id, 3), 127)
      [] mei.code = 3 -> items(device_id.objs, Max(mei.first_id, 128), 255)
      [] OTHER -> <<>>

\* the peer holds a read device identification response of a stream
StreamResponse ==
    /\ device_id.configured
    /\ mei.code \in {1, 2, 3}
    /\ mei.phase \in {"stream", "done"}
    /\ ~mei.closed
    /\ Len(mei.response) >= 7

\* the segments received so far are the first objects of the range, each
\* once; while more follows, next_object_id is the first object not sent, and
\* the last segment completes the range
C16_Segments ==
    StreamResponse =>
        /\ Len(mei.got) <= Len(RequestedRange)
        /\ \A i \in 1..Len(mei.got) : mei.got[i] = RequestedRange[i]
        /\ mei.phase = "stream" =>
              /\ mei.response[5] = 255
              /\ Len(mei.got) < Len(RequestedRange)
              /\ mei.response[6] = RequestedRange[Len(mei.got) + 1].id
        /\ mei.phase = "done" =>
              /\ mei.response[5] = 0
              /\ mei.got = RequestedRange

\* C16: for any configured device identification and any stream read code
\* 1, 2 or 3: if the objects of the requested range do not fit in one PDU
\* the first response has more_follows == 0xFF and next_object_id equal to
\* the first object not sent; re-issuing the request with object_id =
\* next_object_id while more_follows == 0xFF terminates after finitely many
\* requests with a final response whose more_follows == 0x00, and the
\* segments together contain exactly the stored objects of the range, each
\* once.
C16_StreamTerminates ==
    /\ []C16_Segments
    /\ (mei.phase = "stream") ~> (mei.phase = "done")

\* a response that says more follows, holds no object and names the object
\* id that was asked as the next one
C16_Witness ==
    /\ StreamResponse
    /\ mei.phase = "stream"
    /\ mei.response[7] = 0
    /\ mei.response[6] = mei.request[4]

\* the peer holds a read device identification response, for its request of
\* read code mei.code and object id mei.request[4]
IdResponse ==
    /\ device_id.configured
    /\ mei.code \in {1, 2, 3, 4}
    /\ mei.phase \in {"stream", "done"}
    /\ ~mei.closed
    /\ Len(mei.response) >= 7

\* (id, length, bytes) of each object of a list, in order
RECURSIVE Packed(_)
Packed(l) ==
    IF l = <<>> THEN <<>>
    ELSE <<Head(l).id, Len(Head(l).value)>> \o Head(l).value \o Packed(Tail(l))

\* the objects that the peer reads in the response
Carried == SegmentObjects(mei.response, mei.response[7], 7)

\* the response carries number_of_objects stored objects with lo <= id <= hi,
\* by ascending id with none of the range left out before the last one, and
\* nothing else
Carries(lo, hi) ==
    /\ mei.response[4] = 131
    /\ Len(Carried) = mei.response[7]
    /\ SliceFrom(mei.response, 7) = Packed(Carried)
    /\ \A i \in 1..Len(Carried) :
          /\ Carried[i].id \in DOMAIN device_id.objs
          /\ lo <= Carried[i].id /\ Carried[i].id <= hi
          /\ Carried[i].value = device_id.objs[Carried[i].id]
          /\ i > 1 => Carried[i - 1].id < Carried[i].id
          /\ \A obj_id \in DOMAIN device_id.objs :
                (lo <= obj_id /\ obj_id < Carried[i].id)
                   => \E j \in 1..(i - 1) : Carried[j].id = obj_id

\* C17: with a configured device identification, the objects carried by a
\* response are stored objects whose ids lie in the range selected by the
\* read code - code 1: 0x00..0x02, code 2: max(object_id, 0x03)..0x7F,
\* code 3: max(object_id, 0x80)..0xFF, code 4: object_id only - packed in
\* ascending id order as (id, length, bytes) from the start of that range;
\* number_of_objects equals the number of objects in the PDU and
\* conformity_level is 0x83.
C17_RangeOfReadCode ==
    IdResponse =>
        CASE mei.code = 1 -> Carries(0, 2)
          [] mei.code = 2 -> Carries(Max(mei.request[4], 3), 127)
          [] mei.code = 3 -> Carries(Max(mei.request[4], 128), 255)
          [] OTHER -> Carries(mei.request[4], mei.request[4])

\* C17 as it holds: the range of read code 1 starts at object_id as well,
\* object_id..0x02
C17_RangeFromObjectId ==
    IdResponse =>
        CASE mei.code = 1 -> Carries(mei.request[4], 2)
          [] mei.code = 2 -> Carries(Max(mei.request[4], 3), 127)
          [] mei.code = 3 -> Carries(Max(mei.request[4], 128), 255)
          [] OTHER -> Carries(mei.request[4], mei.request[4])

\* a response to read code 1 and object id 1 carries the objects 1 and 2
C17_Witness ==
    /\ IdResponse
    /\ mei.code = 1
    /\ mei.request[4] = 1
    /\ mei.response[7] = 2
    /\ mei.response[8] = 1

\* the peer's last read device identification request has been answered by
\* the server as it is now configured (a change of device_id forgets the
\* answers of before)
IdAnswered == mei.phase # "idle"

\* C18: a read device identification request is answered with the exception
\* illegal data address (0x02) while device_id is unset, and with the
\* exception illegal data value (0x03) when device_id is set and the read
\* code is not 1, 2, 3 or 4, also when device_id was set or cleared on the
\* running server before the request; the connection stays open.
C18_UnsetOrUnknownCode ==
    /\ (IdAnswered /\ ~device_id.configured)
          => (mei.response = <<171, 2>> /\ ~mei.closed)
    /\ (IdAnswered /\ device_id.configured /\ mei.code \notin {1, 2, 3, 4})
          => (mei.response = <<171, 3>> /\ ~mei.closed)

\* device_id was cleared on the running server, and the next request is
\* answered with illegal data address
C18_Witness ==
    /\ IdAnswered
    /\ mei.changed
    /\ ~device_id.configured
    /\ mei.code = 1
    /\ mei.response = <<171, 2>>

\* a request method is called (and does not raise ValueError on its arguments)
Requested == pc = "idle" /\ pc' # "idle" /\ res'.kind # "ValueError"

\* the request method returns after its frame was sent
Returned == pc = "wait" /\ pc' = "done"

\* the request of this step has connected and sent its frame
ConnectedAndSent ==
    /\ pc' = "wait"
    /\ cl'.sock = "open"
    /\ worker' = "serving"
    /\ c2s' # <<>>

\* the request of this step returns failure with last_error == e, the socket
\* closed and nothing sent
FailedWith(e) ==
    /\ pc' = "done"
    /\ res' = failure_of(cur'.m)
    /\ cl'.last_error = e
    /\ cl'.sock = "closed"
    /\ c2s' = <<>>

\* auto_close on: the socket is closed when a request returns after its
\* frame was sent; auto_close off: a request without error leaves it open
AutoClose ==
    /\ (Returned /\ cl.auto_close) => cl'.sock = "closed"
    /\ (Returned /\ ~cl.auto_close /\ cl'.last_error = MB_NO_ERR) => cl'.sock = "open"

\* auto_open off and the socket closed: the request fails with socket_closed,
\* and no connection is made
NoAutoOpen ==
    (Requested /\ ~cl.auto_open /\ cl.sock = "closed")
       => (FailedWith(MB_SOCK_CLOSE_ERR) /\ worker' = worker)

\* C19: with auto_open on and the socket closed, every request first connects
\* - then its frame is sent, or the send fails - and if the connect fails the
\* request returns failure with last_error == connect_error and nothing is
\* sent; with auto_open off and the socket closed, a request fails without
\* attempting a connection; with auto_close on, the socket is closed when a
\* request that received its response frame returns; with auto_close off, a
\* successful request leaves the socket open.
C19_SocketStateMachine ==
    [][/\ (Requested /\ cl.auto_open /\ cl.sock = "closed")
             => \/ ConnectedAndSent
                \/ FailedWith(MB_CONNECT_ERR) /\ worker' = worker
                \/ FailedWith(MB_SEND_ERR)
                \/ FailedWith(MB_TIMEOUT_ERR)
       /\ NoAutoOpen
       /\ AutoClose]_vars

\* the same, but for a request that raises socket.gaierror
C19_UnlessNameUnresolved ==
    [][/\ (Requested /\ cl.auto_open /\ cl.sock = "closed")
             => \/ ConnectedAndSent
                \/ FailedWith(MB_CONNECT_ERR) /\ worker' = worker
                \/ FailedWith(MB_SEND_ERR)
                \/ FailedWith(MB_TIMEOUT_ERR)
                \/ pc' = "done" /\ res'.kind = "gaierror" /\ cl'.sock = "closed"
                   /\ c2s' = <<>>
       /\ NoAutoOpen
       /\ AutoClose]_vars

\* a request made with auto_open on and the socket closed has raised
\* socket.gaierror: no failure value, no connect_error
C19_Witness ==
    /\ pc = "done"
    /\ cl.auto_open
    /\ cl.sock = "closed"
    /\ res.kind = "gaierror"
    /\ cl.last_error = MB_NO_ERR

\* the values of HostValues that are a valid host: 'localhost', 'plc-1' and
\* '::1'
GoodHosts == {DefaultHost, <<112, 108, 99, 45, 49>>, <<58, 58, 49>>}

\* the values of PortValues that are a valid port
GoodPorts == {DefaultPort, 65535}

\* the step sets host (port) to the valid value v
SetsHost(v) == SetHost([type |-> "str", v |-> v]) /\ v \in GoodHosts
SetsPort(v) == SetPort([type |-> "int", v |-> v]) /\ v \in GoodPorts

\* the step gives host or port a value that is not valid
SetsInvalid ==
    \/ \E value \in HostValues :
          SetHost(value) /\ ~(value.type = "str" /\ value.v \in GoodHosts)
    \/ \E value \in PortValues :
          SetPort(value) /\ ~(value.type = "int" /\ value.v \in GoodPorts)

\* the setter of an invalid value raises and leaves host, port and the socket
\* as they were
InvalidRaises ==
    SetsInvalid => /\ res'.kind \in {"TypeError", "ValueError", "IndexError"}
                   /\ cl' = cl
                   /\ worker' = worker

\* an open socket is connected to the endpoint that host and port tell, so a
\* request goes to the endpoint configured last
ConnectedToEndpoint == cl'.sock = "open" => cl'.sock_addr = <<cl'.host, cl'.port>>

\* C20: setting the client's host or port closes any open socket, so that
\* the next request connects to the newly configured endpoint; setting an
\* invalid host or port raises and leaves host, port and the socket state
\* unchanged.
C20_SetClosesSocket ==
    [][/\ \A v \in GoodHosts :
             SetsHost(v) => (cl'.host = v /\ cl'.port = cl.port /\ cl'.sock = "closed")
       /\ \A v \in GoodPorts :
             SetsPort(v) => (cl'.port = v /\ cl'.host = cl.host /\ cl'.sock = "closed")
       /\ ConnectedToEndpoint
       /\ InvalidRaises]_vars

\* C20 as it holds: setting host or port to a value other than the current
\* one closes any open socket, setting the current value again leaves the
\* socket as it is; an open socket is always connected to the configured
\* endpoint; setting an invalid host or port raises and leaves host, port and
\* the socket state unchanged.
C20_NewValueClosesSocket ==
    [][/\ \A v \in GoodHosts :
             SetsHost(v) => /\ cl'.host = v /\ cl'.port = cl.port
                            /\ v # cl.host => cl'.sock = "closed"
                            /\ v = cl.host => cl'.sock = cl.sock
       /\ \A v \in GoodPorts :
             SetsPort(v) => /\ cl'.port = v /\ cl'.host = cl.host
                            /\ v # cl.port => cl'.sock = "closed"
                            /\ v = cl.port => cl'.sock = cl.sock
       /\ ConnectedToEndpoint
       /\ InvalidRaises]_vars

\* after host and port were both set to other values, a request has
\* connected to the new endpoint and got its response
C20_Witness ==
    /\ pc = "done"
    /\ res.kind = "list"
    /\ cl.sock = "open"
    /\ cl.host # DefaultHost
    /\ cl.port # DefaultPort
    /\ cl.sock_addr = <<cl.host, cl.port>>

\* the step is a turn of the worker on a request (it takes the request's
\* bytes from the connection)
WireTurn == worker = "serving" /\ service_ready(c2s) /\ c2s' # c2s

\* the function code of the request that the worker takes in this step
TurnFunction == IF Len(c2s) > 7 THEN c2s[8] ELSE 0

\* C21: no wire request, with any function code, changes a discrete input or
\* an input register - those two spaces change only through the local
\* set_discrete_inputs / set_input_registers calls, which are no step of the
\* connection - and a read request (0x01..0x04) changes no element of any
\* space.
C21_InputsReadOnlyFromWire ==
    [][/\ WireTurn => (bank'.d_inputs = bank.d_inputs /\ bank'.i_regs = bank.i_regs)
       /\ (bank'.d_inputs # bank.d_inputs \/ bank'.i_regs # bank.i_regs)
             => UNCHANGED <<worker, last, wire_vars, cl_vars>>
       /\ (WireTurn /\ TurnFunction \in {1, 2, 3, 4}) => bank' = bank]_vars

\* a write request has been served with success, after local calls have set a
\* discrete input and an input register, which are as the local calls left them
C21_Witness ==
    /\ SpaceGet(bank.d_inputs, 1)
    /\ SpaceGet(bank.i_regs, 1) = 65535
    /\ last.bank_changed
    /\ last.request # <<>>
    /\ Len(last.request) > 7
    /\ last.request[8] = WRITE_MULTIPLE_COILS

\* the keys and values of StoreKeys and StoreValues by what they are
IntKeys == {key \in StoreKeys : key.type = "int"}
KeysInRange == {key \in IntKeys : 0 <= key.v /\ key.v <= 255}
BytesValues == {value \in StoreValues : value.type = "bytes"}

\* the object id that each named accessor stands for
ObjectIdOf ==
    [vendor_name |-> 0, product_code |-> 1, major_minor_revision |-> 2, vendor_url |-> 3,
     product_name |-> 4, model_name |-> 5, user_application_name |-> 6]

\* every key of the store is an integer in 0..255 and every value is bytes
StoreTyped ==
    /\ DOMAIN device_id'.objs \subseteq 0..255
    /\ \A obj_id \in DOMAIN device_id'.objs :
          \A i \in 1..Len(device_id'.objs[obj_id]) : device_id'.objs[obj_id][i] \in 0..255

\* the step stores value under obj_id, and nothing else
Stores(obj_id, value) ==
    /\ res'.kind = "none"
    /\ DOMAIN device_id'.objs = DOMAIN device_id.objs \cup {obj_id}
    /\ \A i \in DOMAIN device_id'.objs :
          device_id'.objs[i] = IF i = obj_id THEN value.v ELSE device_id.objs[i]

\* the step raises exc and leaves the store as it was
Refuses(exc) == res'.kind = exc /\ device_id' = device_id

\* each named accessor reads and writes the object of its id
NamedAccessors ==
    \A k \in 1..7 :
       /\ GetProperty(PropertyNames[k])
             => (res'.kind = "none"
                 /\ res'.data = device_id.objs[ObjectIdOf[PropertyNames[k]]])
       /\ \A value \in BytesValues :
             SetProperty(PropertyNames[k], value)
                => Stores(ObjectIdOf[PropertyNames[k]], value)

\* C22: after any sequence of operations on a DeviceIdentification store,
\* every key is an integer in 0..255 and every value is a byte string; an
\* assignment with a non-integer key or a non-bytes value raises TypeError,
\* with an integer key outside 0..255 raises ValueError, and in both cases the
\* store is unchanged; each named accessor reads and writes exactly the object
\* with id 0x00..0x06 respectively.
C22_StoreKeysAndValues ==
    [][/\ StoreTyped
       /\ \A key \in StoreKeys, value \in StoreValues :
             SetItem(key, value)
                => /\ (key \notin IntKeys \/ value \notin BytesValues) => Refuses("TypeError")
                   /\ (key \in IntKeys \ KeysInRange) => Refuses("ValueError")
                   /\ (key \in KeysInRange /\ value \in BytesValues) => Stores(key.v, value)
       /\ NamedAccessors]_vars

\* C22 as it holds: the key is looked at first, so that a non-bytes value
\* raises TypeError when the key is an integer in 0..255, and ValueError with
\* an integer key outside 0..255
C22_KeyThenValue ==
    [][/\ StoreTyped
       /\ \A key \in StoreKeys, value \in StoreValues :
             SetItem(key, value)
                => /\ key \notin IntKeys => Refuses("TypeError")
                   /\ (key \in IntKeys \ KeysInRange) => Refuses("ValueError")
                   /\ (key \in KeysInRange /\ value \notin BytesValues)
                         => Refuses("TypeError")
                   /\ (key \in KeysInRange /\ value \in BytesValues) => Stores(key.v, value)
       /\ NamedAccessors]_vars

\* an assignment with a non-bytes value has raised TypeError, the store
\* holding objects that were written by key (0x80) and by name (0x06)
C22_Witness ==
    /\ res.kind = "TypeError"
    /\ 128 \in DOMAIN device_id.objs
    /\ device_id.objs[128] = <<102, 101>>
    /\ device_id.objs[6] = <<102, 101>>

\* the PDUs of the worker's last turn
RequestPdu == SliceFrom(last.request, 7)
ResponsePdu == SliceFrom(last.response, 7)

\* the worker has answered a request 0x17 that holds all its fields
Answered17 ==
    /\ ~last.closed
    /\ Len(RequestPdu) >= 10
    /\ RequestPdu[1] = 23

\* the fields of the request 0x17
ReadAddr17 == UnpackH(RequestPdu, 1)
ReadQty17 == UnpackH(RequestPdu, 3)
WriteAddr17 == UnpackH(RequestPdu, 5)
WriteQty17 == UnpackH(RequestPdu, 7)
ByteCount17 == RequestPdu[10]

\* C23: the server accepts a request 0x17, that is, does not answer it with
\* illegal data value, exactly when 1 <= read_qty <= 125, 1 <= write_qty <=
\* 121, write_byte_count == 2 * write_qty and the payload holds at least
\* write_byte_count bytes.
C23_Accepts17 ==
    Answered17 =>
        ((ResponsePdu # <<151, 3>>)
           <=> (/\ 1 <= ReadQty17 /\ ReadQty17 <= 125
                /\ 1 <= WriteQty17 /\ WriteQty17 <= 121
                /\ ByteCount17 = 2 * WriteQty17
                /\ Len(RequestPdu) - 10 >= ByteCount17))

\* the limits that the server tests: 123 for both quantities
C23_AcceptsUpTo123 ==
    Answered17 =>
        ((ResponsePdu # <<151, 3>>)
           <=> (/\ 1 <= ReadQty17 /\ ReadQty17 <= 123
                /\ 1 <= WriteQty17 /\ WriteQty17 <= 123
                /\ ByteCount17 = 2 * WriteQty17
                /\ Len(RequestPdu) - 10 >= ByteCount17))

\* a request 0x17 that reads 125 registers and writes one is answered with
\* illegal data value
C23_Witness ==
    /\ Answered17
    /\ ReadQty17 = 125
    /\ WriteQty17 = 1
    /\ ByteCount17 = 2
    /\ Len(RequestPdu) = 12
    /\ ResponsePdu = <<151, 3>>

\* the worker has answered a read request that holds its two fields
AnsweredRead ==
    /\ ~last.closed
    /\ Len(RequestPdu) >= 5
    /\ RequestPdu[1] \in {1, 2, 3, 4}

ReadFunction == RequestPdu[1]
ReadAddress == UnpackH(RequestPdu, 1)
ReadQuantity == UnpackH(RequestPdu, 3)

\* the space that the function code addresses
ReadSpace ==
    CASE ReadFunction = 1 -> bank.coils
      [] ReadFunction = 2 -> bank.d_inputs
      [] ReadFunction = 3 -> bank.h_regs
      [] OTHER -> bank.i_regs

\* the response carries the `quantity` bits of the addressed range, LSB first
\* in ceil(quantity / 8) bytes, the unused bits of the last byte being zero
CarriesBits ==
    /\ Len(ResponsePdu) = 2 + (ReadQuantity + 7) \div 8
    /\ ResponsePdu[1] = ReadFunction
    /\ ResponsePdu[2] = (ReadQuantity + 7) \div 8
    /\ \A k \in 0..(8 * ResponsePdu[2] - 1) :
          ((ResponsePdu[3 + k \div 8] \div (2 ^ (k % 8))) % 2 = 1)
             <=> (k < ReadQuantity /\ SpaceGet(ReadSpace, ReadAddress + k) = TRUE)

\* the response carries the `quantity` words of the addressed range, big
\* endian, with the byte count 2 * quantity
CarriesWords ==
    /\ Len(ResponsePdu) = 2 + 2 * ReadQuantity
    /\ ResponsePdu[1] = ReadFunction
    /\ ResponsePdu[2] = 2 * ReadQuantity
    /\ \A k \in 0..(ReadQuantity - 1) :
          256 * ResponsePdu[3 + 2 * k] + ResponsePdu[4 + 2 * k]
             = SpaceGet(ReadSpace, ReadAddress + k)

\* C24: a request 0x01/0x02 whose quantity is outside 1..2000, or 0x03/0x04
\* whose quantity is outside 1..125, is answered with illegal data value
\* whatever the start address; a request with a valid quantity whose range
\* start + quantity exceeds the space is answered with illegal data address;
\* otherwise the response carries exactly `quantity` values of the addressed
\* range.
C24_ReadResponses ==
    AnsweredRead =>
        IF ReadQuantity < 1 \/ ReadQuantity > (IF ReadFunction \in {1, 2} THEN 2000 ELSE 125)
        THEN ResponsePdu = <<ReadFunction + 128, 3>>
        ELSE IF ReadAddress + ReadQuantity > ReadSpace.size
             THEN ResponsePdu = <<ReadFunction + 128, 2>>
             ELSE IF ReadFunction \in {1, 2} THEN CarriesBits ELSE CarriesWords

\* the same for the three spaces other than the discrete inputs
C24_ReadOtherSpaces == (AnsweredRead /\ ReadFunction # 2) => C24_ReadResponses

\* a request for 17 discrete inputs from 1, of a bank with 20 coils and 10
\* discrete inputs, is answered with 3 bytes of bits
C24_Witness ==
    /\ AnsweredRead
    /\ ReadFunction = 2
    /\ ReadAddress = 1
    /\ ReadQuantity = 17
    /\ bank.coils.size = 20
    /\ bank.d_inputs.size = 10
    /\ ResponsePdu[1] = 2
    /\ Len(ResponsePdu) = 5

\* the calls that the handler of the application has logged in the last turn
HandlerMethods ==
    {"read_coils", "read_d_inputs", "read_h_regs", "read_i_regs", "write_coils", "write_h_regs"}

HandlerCalls == SelectSeq(last.notes, LAMBDA n : n.space \in HandlerMethods)

WithHandler == "data_hdl" \in DOMAIN last

\* what the installed handler returns for the client of the last request
ReadExp == IF WithHandler THEN last.data_hdl.read_exp ELSE 0
WriteExp == IF WithHandler THEN last.data_hdl.write_exp ELSE 0

\* the worker has answered a request 0x17 within the limits of the function
Accepted17 ==
    /\ Answered17
    /\ 1 <= ReadQty17 /\ ReadQty17 <= 123
    /\ 1 <= WriteQty17 /\ WriteQty17 <= 121
    /\ ByteCount17 = 2 * WriteQty17
    /\ Len(RequestPdu) - 10 >= ByteCount17

\* the exception codes that the two handler calls of the request 0x17 return
WriteExp17 ==
    IF WriteExp # 0 THEN WriteExp
    ELSE IF WriteAddr17 + WriteQty17 <= bank.h_regs.size THEN 0 ELSE 2

ReadExp17 ==
    IF ReadExp # 0 THEN ReadExp
    ELSE IF ReadAddr17 + ReadQty17 <= bank.h_regs.size THEN 0 ELSE 2

\* the response 0x17 carries the registers of the read range
Carries17 ==
    /\ Len(ResponsePdu) = 2 + 2 * ReadQty17
    /\ ResponsePdu[1] = 23
    /\ ResponsePdu[2] = 2 * ReadQty17
    /\ \A k \in 0..(ReadQty17 - 1) :
          256 * ResponsePdu[3 + 2 * k] + ResponsePdu[4 + 2 * k]
             = SpaceGet(bank.h_regs, ReadAddr17 + k)

\* C25: for an accepted request 0x17 the server calls the write method of the
\* handler first and the read method second; when the write returns an
\* exception the response carries it and the read method is not called; when
\* the write succeeds the response carries the result of the read, or the
\* exception that the read returns.
C25_WriteThenRead ==
    Accepted17 =>
        /\ WithHandler =>
              /\ Len(HandlerCalls) >= 1
              /\ HandlerCalls[1] = CallNote("write_h_regs", WriteAddr17, WriteQty17, WriteExp17)
              /\ WriteExp17 # 0 => Len(HandlerCalls) = 1
              /\ WriteExp17 = 0 =>
                    /\ Len(HandlerCalls) = 2
                    /\ HandlerCalls[2] = CallNote("read_h_regs", ReadAddr17, ReadQty17, ReadExp17)
        /\ WriteExp17 # 0 => ResponsePdu = <<151, WriteExp17>> /\ ~last.bank_changed
        /\ WriteExp17 = 0 =>
              /\ \A k \in 0..(WriteQty17 - 1) :
                    SpaceGet(bank.h_regs, WriteAddr17 + k)
                       = 256 * RequestPdu[11 + 2 * k] + RequestPdu[12 + 2 * k]
              /\ ReadExp17 # 0 => ResponsePdu = <<151, ReadExp17>>
              /\ ReadExp17 = 0 => Carries17

\* the write method has refused a request 0x17 whose read the handler would
\* have refused too, with another code
C25_Witness ==
    /\ Accepted17
    /\ WithHandler
    /\ last.data_hdl = [read_exp |-> 4, write_exp |-> 6]
    /\ Len(HandlerCalls) = 1
    /\ HandlerCalls[1].space = "write_h_regs"
    /\ ResponsePdu = <<151, 6>>

\* the write of a request 0x17 is in its response: both ranges at 0
C25_WitnessRead ==
    /\ Accepted17
    /\ WithHandler
    /\ Len(HandlerCalls) = 2
    /\ ~last.closed
    /\ last.bank_changed
    /\ ResponsePdu = <<23, 4, 1, 1, 1, 1>>

\* the data-access request of the last turn
DataFunction == RequestPdu[1]
DataAddress == UnpackH(RequestPdu, 1)
DataField == UnpackH(RequestPdu, 3)

\* the request of the last turn has passed the tests that the function makes
\* before it calls the data handler
HandlerCalled ==
    /\ Len(last.request) = 7 + Len(RequestPdu)
    /\ Len(RequestPdu) >= 5
    /\ CASE DataFunction \in {1, 2} -> 1 <= DataField /\ DataField <= 2000
         [] DataFunction \in {3, 4} -> 1 <= DataField /\ DataField <= 125
         [] DataFunction \in {5, 6} -> TRUE
         [] DataFunction = 15 ->
               /\ Len(RequestPdu) >= 6
               /\ 1 <= DataField /\ DataField <= 1968
               /\ RequestPdu[6] >= (DataField + 7) \div 8
               /\ Len(RequestPdu) - 6 >= RequestPdu[6]
         [] DataFunction = 16 ->
               /\ Len(RequestPdu) >= 6
               /\ 1 <= DataField /\ DataField <= 123
               /\ RequestPdu[6] = 2 * DataField
               /\ Len(RequestPdu) - 6 >= RequestPdu[6]
         [] DataFunction = 23 -> Accepted17
         [] OTHER -> FALSE

\* the call of the data bank that the default handler makes reports a range
\* out of bounds (the sizes of the spaces never change)
OutOfBounds ==
    CASE DataFunction = 1 -> ~get_coils(bank, DataAddress, DataField).ok
      [] DataFunction = 2 -> ~get_discrete_inputs(bank, DataAddress, DataField).ok
      [] DataFunction = 3 -> ~get_holding_registers(bank, DataAddress, DataField).ok
      [] DataFunction = 4 -> ~get_input_registers(bank, DataAddress, DataField).ok
      [] DataFunction = 5 -> DataAddress + 1 > bank.coils.size
      [] DataFunction = 6 -> DataAddress + 1 > bank.h_regs.size
      [] DataFunction = 15 -> DataAddress + DataField > bank.coils.size
      [] DataFunction = 16 -> DataAddress + DataField > bank.h_regs.size
      [] OTHER -> FALSE

\* the exception code that the installed handler returns to the function
HandlerExp ==
    CASE DataFunction \in {1, 2, 3, 4} ->
            IF ReadExp # 0 THEN ReadExp ELSE IF OutOfBounds THEN 2 ELSE 0
      [] DataFunction \in {5, 6, 15, 16} ->
            IF WriteExp # 0 THEN WriteExp ELSE IF OutOfBounds THEN 2 ELSE 0
      [] OTHER -> IF WriteExp17 # 0 THEN WriteExp17 ELSE ReadExp17

\* C27: for every data-access function, when the installed data handler (the
\* default one or that of the application) returns an exception code e other
\* than zero, the server answers with the PDU (0x80 | function code, e) and
\* keeps the connection open; the default handler returns illegal data address
\* exactly when the call of the data bank reports a range out of bounds, and
\* no exception otherwise.
C27_HandlerException ==
    HandlerCalled =>
        /\ ~last.closed
        /\ HandlerExp # 0 => ResponsePdu = <<128 + DataFunction, HandlerExp>>
        /\ HandlerExp = 0 => ResponsePdu[1] = DataFunction
        /\ WithHandler =>
              /\ HandlerCalls # <<>>
              /\ HandlerCalls[Len(HandlerCalls)].to_value = HandlerExp
              /\ \A i \in 1..(Len(HandlerCalls) - 1) : HandlerCalls[i].to_value = 0

\* the handler of the application has refused a read of holding registers
\* that is within the space
C27_Witness ==
    /\ HandlerCalled
    /\ WithHandler
    /\ DataFunction = 3
    /\ ~OutOfBounds
    /\ last.data_hdl.read_exp = 4
    /\ ResponsePdu = <<131, 4>>
    /\ ~last.closed

\* the default handler has refused a write of coils past the end of the space
C27_WitnessDefault ==
    /\ HandlerCalled
    /\ ~WithHandler
    /\ DataFunction = 15
    /\ OutOfBounds
    /\ ResponsePdu = <<143, 2>>
    /\ ~last.closed

\* the caller has returned from _write_read_multiple_registers with the
\* registers it read
Returned17(c) ==
    /\ callers[c].kind = "0x17"
    /\ callers[c].pc = "done"
    /\ Len(callers[c].rets) = 2
    /\ callers[c].rets[2].ok

\* the register at address that the request 0x17 of the caller has written,
\* and the one that it returns
Written17(c, address) ==
    LET call == callers[c].rets[1].call
    IN  call.list[address - call.address + 1]

Read17(c, address) ==
    LET ret == callers[c].rets[2]
    IN  ret.data[address - ret.call.address + 1]

Both17(c) ==
    LET w == callers[c].rets[1].call
        r == callers[c].rets[2].call
    IN  (w.address..(w.address + w.number - 1)) \cap (r.address..(r.address + r.number - 1))

Inside(c, space) ==
    /\ callers[c].pc \in {"locked", "release"}
    /\ call_space(Head(callers[c].todo).method) = space

\* C29: the writes of a range are atomic for the threads that observe them
\* and the operations on a space are linearizable: a get_ that runs at the
\* same time as a set_ of a range returns the values of before the set_ or
\* those of after it, never a mixture, and every get_ returns the values of
\* the latest set_ that is serialized before it.
C29_Linearizable ==
    /\ \A c \in Callers, d \in Callers, space \in {"coils", "h_regs"} :
          Inside(c, space) /\ Inside(d, space) => c = d
    /\ \A c \in Callers :
          \A k \in 1..Len(callers[c].rets) :
              LET ret == callers[c].rets[k]
              IN  ~call_is_set(ret.call.method) /\ ret.ok => ret.data = ret.serialized

\* a get_ of two holding registers has returned what a set_ of the other
\* thread wrote, while that thread goes on
C29_Witness ==
    \E c \in Callers, d \in Callers :
        /\ c # d
        /\ callers[c].kind = "local"
        /\ callers[c].pc = "done"
        /\ callers[c].rets[1].call.method = "get_holding_registers"
        /\ callers[c].rets[1].data = <<2, 2>>
        /\ callers[d].kind = "local"
        /\ callers[d].pc = "done"
        /\ callers[d].rets[1].call.method = "set_holding_registers"

\* C28: when the server has an external engine the internal functions are
\* not called and the data bank is neither read nor written for a request;
\* the frame sent back carries the PDU that the engine left in the response of
\* the session, with the transaction id, protocol id and unit id of the
\* request and the length computed from the PDU; when the engine raises, the
\* connection is closed and no response is sent.
C28_ExternalEngine ==
    "ext_engine" \in DOMAIN last =>
        /\ ~last.bank_changed
        /\ bank = DataBankInit(DEFAULT_SIZE, DEFAULT_SIZE, DEFAULT_SIZE, DEFAULT_SIZE)
        /\ last.notes = <<>>
        /\ last.ext_engine.raises => last.closed /\ last.response = <<>>
        /\ ~last.ext_engine.raises =>
              /\ ~last.closed
              /\ last.response
                    = SubSeq(last.request, 1, 4)
                      \o <<(Len(last.ext_engine.pdu) + 1) \div 256,
                           (Len(last.ext_engine.pdu) + 1) % 256, last.request[7]>>
                      \o last.ext_engine.pdu

\* the external engine has answered a request to write two coils with a PDU
\* of 300 bytes, and the coils are as they were
C28_Witness ==
    /\ "ext_engine" \in DOMAIN last
    /\ RequestPdu[1] = 15
    /\ DataAddress = 0
    /\ SubSeq(last.request, 1, 2) = <<255, 255>>
    /\ Len(last.response) = 307
    /\ SubSeq(last.response, 1, 7) = <<255, 255, 0, 0, 1, 45, 255>>
    /\ SpaceGet(bank.coils, 0) = FALSE

\* the first bytes that the worker of connection k has not read hold a header
\* with protocol id 0 and a length between 3 and 255
HeaderOk(k) ==
    /\ Len(conns[k].rx) >= 7
    /\ conns[k].rx[3] = 0 /\ conns[k].rx[4] = 0
    /\ 2 < 256 * conns[k].rx[5] + conns[k].rx[6]
    /\ 256 * conns[k].rx[5] + conns[k].rx[6] < 256

\* the number of bytes of the frame that this header announces
FrameLen(k) == 7 + (256 * conns[k].rx[5] + conns[k].rx[6]) - 1

\* in this step the worker of connection k has passed a request to the engine:
\* the engine has answered, or raised, or changed the data bank
EngineStep(k) ==
    /\ conns[k].state = "serving"
    /\ \/ conns'[k].log # conns[k].log /\ conns'[k].log[Len(conns'[k].log)].ev = "request"
       \/ conns'[k].state = "closed" /\ conns'[k].why = "engine"
       \/ conns'[k].changed /\ ~conns[k].changed

\* in this step the worker of connection k has read a header
HeaderStep(k) ==
    /\ conns[k].state = "serving"
    /\ conns[k].pos = "recv_h"
    /\ Len(conns[k].rx) >= 7
    /\ conns'[k].state # "serving" \/ conns'[k].pos # "recv_h"

\* C30: a worker passes a request to the engine only if its header is of 7
\* bytes with protocol_id == 0 and 2 < length < 256, and only once the
\* length - 1 bytes of the PDU have been received, which are the bytes it
\* takes; on any other header the worker closes the connection, sends no
\* response and does not touch the data bank.
C30_ValidHeaderBeforeEngine ==
    [][\A k \in Conns :
          /\ EngineStep(k) =>
                /\ HeaderOk(k)
                /\ Len(conns[k].rx) >= FrameLen(k)
                /\ conns'[k].state = "serving" =>
                      conns'[k].rx = SliceFrom(conns[k].rx, FrameLen(k))
          /\ HeaderStep(k) /\ ~HeaderOk(k) =>
                /\ conns'[k].state = "closed"
                /\ conns'[k].tx = <<>>
                /\ conns'[k].log = conns[k].log
                /\ bank' = bank
          /\ HeaderStep(k) /\ HeaderOk(k) =>
                /\ conns'[k].state = "serving"
                /\ bank' = bank
                /\ conns'[k].tx = <<>>]_vars

\* a worker has served a request to write a register, and the worker of the
\* other connection has closed it on a header that it refuses
C30_Witness ==
    \E k \in Conns, j \in Conns :
        /\ conns[k].state = "serving"
        /\ conns[k].pos = "send"
        /\ Len(conns[k].tx) = 12
        /\ conns[k].changed
        /\ conns[j].state = "closed"
        /\ conns[j].why = "framing"
        /\ conns[j].arrived # <<>>

\* the worker has taken the PDU of the last request, its header being valid
Dispatched == Len(last.request) > 7

\* C31: every PDU respects the maximum of 253 bytes: every request PDU that
\* the server accepts has at most 253 bytes, and every response PDU of the
\* internal engine has between 1 and 253 bytes.
C31_PduMax ==
    Dispatched =>
        /\ Len(RequestPdu) <= 253
        /\ ~last.closed => 1 <= Len(ResponsePdu) /\ Len(ResponsePdu) <= 253

\* the request PDUs have up to 254 bytes, the response PDUs up to 253
C31_RequestMax254 ==
    Dispatched =>
        /\ Len(RequestPdu) <= 254
        /\ ~last.closed => 1 <= Len(ResponsePdu) /\ Len(ResponsePdu) <= 253

\* the server has answered a request PDU of 254 bytes, and written the
\* register as it asks
C31_Witness ==
    /\ Dispatched
    /\ Len(RequestPdu) = 254
    /\ ~last.closed
    /\ ResponsePdu = <<6, 0, 0, 0, 7>>
    /\ SpaceGet(bank.h_regs, 0) = 7

\* the last request is a write that the server has answered with an exception
WriteRefused ==
    /\ Dispatched
    /\ ~last.closed
    /\ RequestPdu[1] \in {5, 6, 15, 16, 23}
    /\ ResponsePdu[1] = RequestPdu[1] + 128

\* the notifications of a change of the data bank made in the last turn
ChangeNotes == SelectSeq(last.notes, LAMBDA n : n.space \in {"coils", "h_regs"})

C35_RefusedWriteNoChangeBut17 ==
    WriteRefused /\ ~(RequestPdu[1] = 23 /\ Accepted17 /\ WriteExp17 = 0)
        => ~last.bank_changed /\ ChangeNotes = <<>>

DataMethods == ReadMethods \cup WriteMethods \cup {"write_read_multiple_registers"}

\* the server has answered the call with illegal data address or illegal
\* data value
RefusedByServer ==
    /\ ~last.closed
    /\ Len(ResponsePdu) = 2
    /\ ResponsePdu[1] >= 128
    /\ ResponsePdu[2] \in {2, 3}

\* C34: the client and the server agree on what is valid: a request that
\* passes the tests of the arguments of a typed request method passes the
\* tests of quantity, byte count and length that the server makes for its
\* function, so a server with the default data bank never answers it with
\* illegal data value or illegal data address.
C34_ValidationsAgree ==
    Served /\ cur.m \in DataMethods => ~RefusedByServer

\* as C34, for the calls of write_read_multiple_registers that read 123
\* registers at most
C34_ValidationsAgreeUpTo123 ==
    Served /\ cur.m \in DataMethods /\ cur.nb <= 123 => ~RefusedByServer

\* the server has answered illegal data value to a call that reads 125
\* registers and writes 121, which the client has sent
C34_Witness ==
    /\ Served
    /\ cur.m = "write_read_multiple_registers"
    /\ ~raises_value_error(cur)
    /\ cur.nb = 125
    /\ Len(cur.vals) = 121
    /\ ResponsePdu = <<151, 3>>
    /\ res.kind = "None"
    /\ cl.last_except = 3

\* ------------------------------------------------------------ late responses
\* the call has returned a value decoded from a response
ReturnedValue ==
    /\ pc = "done"
    /\ cur # NoCall
    /\ rx_pdu # <<>>
    /\ res # failure_of(cur.m)

\* the client's socket holds no byte of a response
AtFrameBoundary == cl.sock = "open" => s2c = <<>>

\* the value returned is the one of the response the worker made for the
\* request of this call
OwnResponse ==
    /\ UnpackH(last.request, 0) = cl.transaction_id
    /\ SliceFrom(last.request, 7) = tx_pdu_of(cur)
    /\ SliceFrom(last.response, 7) = rx_pdu
    /\ res = decode_reply(cur, rx_pdu).value

\* C39: every value a client request returns was decoded from the response
\* frame the server made for that same request; after any request, successful
\* or failed, the socket is closed or holds no unread byte of a response, so
\* that a late, partial or leftover response is never taken as the answer to
\* a later request.
C39_OwnResponse ==
    /\ pc \in {"idle", "done"} => AtFrameBoundary
    /\ ReturnedValue => OwnResponse

\* the client's timeout has ended with a part of the response received, the
\* socket is closed and the rest of the response is gone with it
C39_Witness ==
    /\ pc = "done"
    /\ cur # NoCall
    /\ cl.last_error = MB_TIMEOUT_ERR
    /\ res = failure_of(cur.m)
    /\ Len(last.response) > 7
    /\ cl.sock = "closed"
    /\ s2c = <<>>

\* the second call has returned a value and the socket is open
C39_WitnessSecond ==
    /\ ReturnedValue
    /\ ncalls = 2
    /\ cl.sock = "open"

\* ------------------------------------------------------------ gateway properties
\* the query whose srv_engine_entry has just ended found the queue full
Refused == gw.out.id # 0 /\ ~gw.out.put

\* the exception response of the request of gw.out with the code exp_status
GwExceptionOf(exp_status) ==
    /\ ~gw.out.result.err
    /\ gw.out.result.pdu = <<(gw.out.request.head[2] + 128) % 256, exp_status>>
    /\ gw.out.request.head[2] < 128

\* the queries that wait are the ones in the queue, the one of the serial
\* worker and the completed ones
WaitingIds == {w.id : w \in gw.wait}
QueuedIds == {gw.q[i] : i \in 1..Len(gw.q)}

\* C32: the queue of the gateway never holds more than 5 queries; a request
\* that comes while it is full is not put in it, does not block its worker
\* (its srv_engine_entry ends in the step that finds the queue full) and is
\* answered with the exception gateway path unavailable (0x0A) for the function
\* code of the request; the queries in the queue are not affected.
C32_QueueFull ==
    /\ Len(gw.q) <= 5
    /\ Refused =>
          /\ gw.out.len = 5
          /\ gw.out.id \notin QueuedIds \cup WaitingIds
          /\ GwExceptionOf(10)

\* what holds of C32: the same, the answer being the exception 0x0A when the
\* function code of the request is below 0x80
C32_QueueFullBelow80 ==
    /\ Len(gw.q) <= 5
    /\ Refused =>
          /\ gw.out.len = 5
          /\ gw.out.id \notin QueuedIds \cup WaitingIds
          /\ gw.out.request.head[2] < 128 => GwExceptionOf(10)

\* the queries in the queue are not affected by a request that is refused
C32_QueueKept ==
    [][(gw'.out.id # gw.out.id /\ ~gw'.out.put) => (gw'.q = gw.q /\ gw'.wait = gw.wait)]_vars

\* a request with a function code above 0x7F has found the queue full and
\* srv_engine_entry has raised
C32_Witness ==
    /\ Refused
    /\ Len(gw.q) = 5
    /\ gw.out.request.head[2] >= 128
    /\ gw.out.result.err

\* the serial worker takes the queries in the order they were put in the
\* queue, one at a time: the one it takes is older than all that stay
Fifo ==
    [][(gw'.serial.cur # gw.serial.cur /\ gw'.serial.cur # 0) =>
          /\ gw.serial.cur = 0
          /\ gw'.serial.cur \in {gw.q[i] : i \in 1..Len(gw.q)}
          /\ \A i \in 1..Len(gw.q) : gw.q[i] >= gw'.serial.cur]_vars

\* the worker of a query that was put in the queue has gone on with the PDU
\* of the answer read for its own query, or with the exception 0x0B when
\* nothing or a damaged frame was read
OwnAnswer ==
    (gw.out.id # 0 /\ gw.out.put) =>
        IF gw.out.request.head[1] = 1
        THEN gw.out.result = Replied(<<gw.out.request.head[2] % 128, gw.out.id>>, bank, <<>>)
        ELSE gw.out.request.head[2] < 128 => GwExceptionOf(11)

\* C33: every query put in the queue is completed by the serial worker in the
\* end and its worker goes on: no worker of a TCP connection waits for ever.
C33_NoWorkerWaitsForEver ==
    \A id \in 1..MaxQueries : (id \in WaitingIds) ~> (id \notin WaitingIds)

\* what holds of C33: a worker goes on in the end unless the thread of the
\* serial worker has ended
C33_GoesOnUnlessSerialEnded ==
    \A id \in 1..MaxQueries :
        (id \in WaitingIds) ~> (id \notin WaitingIds \/ gw.serial.pc = "dead")

\* what holds of C33: the queries are taken in the order of the queue, one at
\* a time
C33_Fifo == Fifo

\* what holds of C33: the answer given is the one read for the query
C33_OwnAnswer == OwnAnswer

\* the thread of the serial worker has ended in the exchange of a query, and
\* workers wait for that query and for the ones in the queue
C33_Witness ==
    /\ gw.serial.pc = "dead"
    /\ gw.serial.cur \in WaitingIds
    /\ Len(gw.q) > 0

\* ------------------------------------------------------------ start and stop
\* C36: once stop() has returned, no worker thread made before that stop()
\* gives any further request to the engine, even when start() is called again
\* on the same server while the old connection is still open.
C36_NoRequestAfterStop == \A k \in Conns : ~conns[k].late

\* the server runs again after a stop(), and the worker of a connection made
\* before that stop() has given a request to the engine after it and is about
\* to send the response
C36_Witness ==
    \E k \in Conns :
        /\ conns[k].late
        /\ conns[k].state = "serving"
        /\ conns[k].pos = "send"
        /\ running
        /\ service = "listening"
        /\ Len(conns[k].log) = 1

\* C37: is_run tracks start() and stop(): when start() returns in no_block
\* mode is_run is True, and when stop() returns is_run is False.
C37_IsRunTracks ==
    /\ service = "started" => running
    /\ service = "shutdown" => ~running

\* what holds of C37: is_run is True while serve_forever runs and False once
\* _serve has ended, and start() does nothing while is_run is True
C37_IsRunWhileServing ==
    /\ service = "listening" => running
    /\ service = "stopped" => ~running

\* start() has returned and _serve has not set the flag yet: is_run is False
C37_Witness ==
    /\ service = "started"
    /\ ~running

\* stop() has returned and _serve has not cleared the flag yet: is_run is True
C37_WitnessStop ==
    /\ service = "shutdown"
    /\ running

\* ------------------------------------------------------------ change callbacks, properties
\* the calls of thread c that hold a lock
Holding(c) == {i \in 1..Len(callers[c].todo) : callers[c].todo[i].holds}

\* no thread holds more than one lock, and none holds a lock while a change
\* method of the application runs
NoLockInUserCode ==
    \A c \in Callers :
        /\ Cardinality(Holding(c)) <= 1
        /\ \A i \in 1..Len(callers[c].todo) :
              callers[c].todo[i].stage = "notify" => ~callers[c].todo[i].holds

\* C38: the data bank is deadlock-free: no get_ or set_ method takes more
\* than one lock or holds a lock while user code runs, so that every call,
\* those of change methods that call get_ or set_ methods of the space that
\* has changed included, runs to its end.
C38_DeadlockFree ==
    /\ []NoLockInUserCode
    /\ \A c \in Callers : (callers[c].pc = "run") ~> (callers[c].pc = "idle")

\* a change method called for a holding register is in the with block of a
\* set_holding_registers that it has called
C38_Witness ==
    \E c \in Callers :
        /\ callers[c].pc = "run"
        /\ Len(callers[c].todo) = 2
        /\ callers[c].todo[1].holds
        /\ callers[c].todo[1].call.method = "set_holding_registers"
        /\ callers[c].todo[2].stage = "notify"
        /\ callers[c].todo[2].call.method = "set_holding_registers"

\* the notifications delivered for an element, in the order of delivery
DeliveredFor(space, address) ==
    LET For(n) == n.address = address
    IN  SelectSeq(delivered[space], For)

AllIdle == \A c \in Callers : callers[c].pc = "idle"

\* C40: when several workers write the same coil or holding register, the
\* notifications for that address are delivered in the order of the writes:
\* the from_value of each is the to_value of the one delivered just before
\* for that address, and the last to_value is the value stored once all the
\* writes are over.
C40_NotifiedInCommitOrder ==
    \A space \in {"coils", "h_regs"} :
        LET d == DeliveredFor(space, 0)
        IN  /\ \A i \in 2..Len(d) : d[i].from_value = d[i - 1].to_value
            /\ (AllIdle /\ d # <<>>) => d[Len(d)].to_value = SpaceGet(bank[space], 0)

\* what holds of C40: every notification tells of a change of value, and
\* nothing is notified while no write has been made
C40_NotifiedChanges ==
    /\ \A space \in {"coils", "h_regs"} : \A i \in 1..Len(delivered[space]) :
          delivered[space][i].from_value # delivered[space][i].to_value
    /\ Len(delivered.coils) + Len(delivered.h_regs) <= ncalls

\* two workers have written the holding register 0, both are back, and the
\* notification of the second write was delivered before the one of the first
C40_Witness ==
    /\ AllIdle
    /\ Len(delivered.h_regs) = 2
    /\ delivered.h_regs[1].from_value = delivered.h_regs[2].to_value
    /\ delivered.h_regs[2].from_value = 0
    /\ SpaceGet(bank.h_regs, 0) = delivered.h_regs[1].to_value

====
